---- MODULE Spec2Model ----
(***************************************************************************)
(* The USB-key controlled integer stack driver (lab5/int_stack.c): a LIFO  *)
(* store behind a misc character device whose entry points are gated by    *)
(* the presence of a configured USB device.                                *)
(*                                                                         *)
(* A call of read/write/ioctl is modelled in the steps at which other      *)
(* contexts can observe or disturb it:                                     *)
(*   Start   - the presence check and everything before mutex_lock,        *)
(*   Acquire - mutex_lock(&dev_buffer->op_lock),                           *)
(*   Body    - the critical section up to and including mutex_unlock and   *)
(*             the return.                                                 *)
(*   Return  - the caller has its result and goes back to user space.      *)
(* pen_probe and pen_disconnect are modelled in two steps each, split      *)
(* between the write of usb_key_present and the (un)registration, and a    *)
(* step in which the handler has returned to the USB core.                 *)
(* The VFS and the USB core are the environment: any caller may invoke any *)
(* file operation at any time, and attach/detach events of any identity    *)
(* arrive one at a time in any order.                                      *)
(***************************************************************************)
EXTENDS Integers, Sequences, FiniteSets, TLC

(***************************************************************************)
(* Bounds of the exploration.                                              *)
(***************************************************************************)
MaxCap == 2          \* largest capacity configured or requested explicitly
MaxConcCap == 1      \* largest capacity requested while two callers are active
MaxCalls == 2        \* reads and writes admitted in all, each of which increments a counter
MaxLifoCap == 3      \* largest capacity of the fill-and-drain scenario
MaxGrowCap == 5      \* largest capacity of a full store that a push grows
MaxCycles == 1       \* detach/re-attach cycles of the fill-and-drain scenario
MaxHist == 2         \* calls recorded in the history of two callers

Callers == {1, 2}    \* the processes that may call into the driver
Procs == {1}         \* the callers that are active in Spec
Values == {1, 2}     \* integers pushed by callers
Sizes == {0, 4, 8}   \* byte counts passed to read/write

(***************************************************************************)
(* Program constants.                                                      *)
(***************************************************************************)
ENOMEM == 12
EFAULT == 14
EBUSY == 16
ENODEV == 19
EINVAL == 22
ENOTTY == 25
ENOSPC == 28
SizeofInt == 4
MinGrowCapacity == 8
usb_vid == 4660      \* 0x1234
usb_pid == 22136     \* 0x5678
OtherVid == 1133     \* 0x046d, an identity that is not the configured one
OtherPid == 50475    \* 0xc52b

\* the client kernel_stack: errno of a missing device node, and exit codes
ENOENT == 2
EXIT_SUCCESS == 0
EXIT_FAILURE == 1
EXIT_CONFIG_ERROR == 2
EXIT_IO_ERROR == 3
EXIT_FORMAT_ERROR == 4
EXIT_USB_ERROR == 5

\* ioctl commands, named by their number within INT_BUFFER_MAGIC 's'
INT_STACK_SET_MAX_SIZE == 1
CMD_GET_CAPACITY == 2
CMD_GET_USAGE == 3
CMD_CLEAR_BUFFER == 4
CMD_UNKNOWN == 5     \* a command the driver does not define

Cmds == {INT_STACK_SET_MAX_SIZE, CMD_GET_CAPACITY, CMD_GET_USAGE, CMD_CLEAR_BUFFER, CMD_UNKNOWN}
SetArgs == -1 .. MaxCap
\* identities of the devices that are plugged and unplugged
Identities == {<<usb_vid, usb_pid>>, <<usb_vid, OtherPid>>, <<OtherVid, usb_pid>>}
MiscRegisterErrors == {-EBUSY}

VARIABLES
    enable_auto_resize,   \* module parameter, fixed at load
    usb_key_present,      \* atomic_t, 0 or 1
    device_registered,    \* atomic_t, 0 or 1
    usb_pc,               \* the USB handler in progress: "idle", "register_device",
                          \* "unregister_device", "returned"
    usb_ev,               \* the attach/detach event being handled and its result
    elements,             \* dev_buffer->elements: array indexed from 0, empty when NULL
    capacity,             \* dev_buffer->capacity
    position,             \* dev_buffer->position
    stats,                \* dev_buffer->stats
    op_lock,              \* owner of dev_buffer->op_lock, 0 when free
    pc,                   \* per caller: "idle", "wait" (before mutex_lock), "cs", "done"
    req,                  \* per caller: the call in progress
    ret,                  \* per caller: return value of the call that is done
    out,                  \* per caller: what the call that is done copied to user space
    trace                 \* scenario log: the calls and events completed so far

cfg == <<enable_auto_resize>>
gate == <<usb_key_present, device_registered>>
usb == <<usb_pc, usb_ev>>
store == <<elements, capacity, position>>
callers == <<pc, req, ret, out>>
log == <<trace>>
vars == <<cfg, gate, usb, store, stats, op_lock, callers, log>>

(***************************************************************************)
(* Helpers.                                                                *)
(***************************************************************************)
min(a, b) == IF a < b THEN a ELSE b
max(a, b) == IF a > b THEN a ELSE b

NULL == [i \in {} |-> 0]
kzalloc(n) == [i \in 0 .. (n - 1) |-> 0]

NoReq == [fn |-> "none", cmd |-> 0, arg |-> 0]
NoEv == [fn |-> "none", vid |-> 0, pid |-> 0, ret |-> 0]

init_stats == [push_count |-> 0, pop_count |-> 0, overflow_count |-> 0, underflow_count |-> 0]

\* calls of function fn that were admitted and have not returned
InFlight(fn) == Cardinality({q \in Callers : pc[q] \in {"wait", "cs"} /\ req[q].fn = fn})

(***************************************************************************)
(* resize_buffer: the store after resize_buffer(new_capacity) and its      *)
(* return value; allocOk is the outcome of kzalloc.                        *)
(***************************************************************************)
\* resize_buffer without "dev_buffer->position = copy_size"
resize_buffer_keeps_position(new_capacity, allocOk) ==
    IF new_capacity = 0
    THEN [ret |-> 0, elements |-> NULL, capacity |-> 0, position |-> 0]
    ELSE IF ~allocOk
    THEN [ret |-> -ENOMEM, elements |-> elements, capacity |-> capacity, position |-> position]
    ELSE [ret |-> 0,
          elements |-> [i \in 0 .. (new_capacity - 1) |->
                           IF i < min(position, new_capacity) THEN elements[i] ELSE 0],
          capacity |-> new_capacity,
          position |-> position]

\* resize_buffer releasing the old array before it allocates the new one
resize_buffer_frees_first(new_capacity, allocOk) ==
    IF new_capacity = 0
    THEN [ret |-> 0, elements |-> NULL, capacity |-> 0, position |-> 0]
    ELSE IF ~allocOk
    THEN [ret |-> -ENOMEM, elements |-> NULL, capacity |-> 0, position |-> 0]
    ELSE LET copy_size == min(position, new_capacity)
         IN [ret |-> 0,
             elements |-> [i \in 0 .. (new_capacity - 1) |->
                              IF i < copy_size THEN elements[i] ELSE 0],
             capacity |-> new_capacity,
             position |-> copy_size]

\* resize_buffer copying the top of the stack instead of the bottom
resize_buffer_keeps_newest(new_capacity, allocOk) ==
    IF new_capacity = 0
    THEN [ret |-> 0, elements |-> NULL, capacity |-> 0, position |-> 0]
    ELSE IF ~allocOk
    THEN [ret |-> -ENOMEM, elements |-> elements, capacity |-> capacity, position |-> position]
    ELSE LET copy_size == min(position, new_capacity)
         IN [ret |-> 0,
             elements |-> [i \in 0 .. (new_capacity - 1) |->
                              IF i < copy_size THEN elements[i + (position - copy_size)] ELSE 0],
             capacity |-> new_capacity,
             position |-> copy_size]

\* resize_buffer releasing the array without resetting the position
resize_buffer_zero_keeps_count(new_capacity, allocOk) ==
    IF new_capacity = 0
    THEN [ret |-> 0, elements |-> NULL, capacity |-> 0, position |-> position]
    ELSE IF ~allocOk
    THEN [ret |-> -ENOMEM, elements |-> elements, capacity |-> capacity, position |-> position]
    ELSE LET copy_size == min(position, new_capacity)
         IN [ret |-> 0,
             elements |-> [i \in 0 .. (new_capacity - 1) |->
                              IF i < copy_size THEN elements[i] ELSE 0],
             capacity |-> new_capacity,
             position |-> copy_size]

resize_buffer(new_capacity, allocOk) ==
    IF new_capacity = 0
    THEN [ret |-> 0, elements |-> NULL, capacity |-> 0, position |-> 0]
    ELSE IF ~allocOk
    THEN [ret |-> -ENOMEM, elements |-> elements, capacity |-> capacity, position |-> position]
    ELSE IF elements # NULL /\ position > 0
    THEN LET copy_size == min(position, new_capacity)
         IN [ret |-> 0,
             elements |-> [i \in 0 .. (new_capacity - 1) |->
                              IF i < copy_size THEN elements[i] ELSE 0],
             capacity |-> new_capacity,
             position |-> copy_size]
    ELSE [ret |-> 0, elements |-> kzalloc(new_capacity),
          capacity |-> new_capacity, position |-> 0]

(***************************************************************************)
(* initialize_buffer / integer_buffer_init: the state once the module has  *)
(* loaded successfully.                                                    *)
(***************************************************************************)
\* the kzalloc and kfree calls of resize_buffer on backing arrays: how many
\* arrays it allocates and how many it releases
resize_buffer_heap(new_capacity, allocOk) ==
    IF new_capacity = 0
    THEN [kzalloc |-> 0, kfree |-> IF elements # NULL THEN 1 ELSE 0]
    ELSE IF ~allocOk
    THEN [kzalloc |-> 0, kfree |-> 0]
    ELSE IF elements # NULL /\ position > 0
    THEN [kzalloc |-> 1, kfree |-> 1]
    ELSE [kzalloc |-> 1, kfree |-> 0]

initialize_buffer(cap) ==
    /\ elements = (IF cap > 0 THEN kzalloc(cap) ELSE NULL)
    /\ capacity = (IF cap > 0 THEN cap ELSE 0)
    /\ position = 0
    /\ stats = init_stats
    /\ op_lock = 0

InitCallers ==
    /\ pc = [p \in Callers |-> "idle"]
    /\ req = [p \in Callers |-> NoReq]
    /\ ret = [p \in Callers |-> 0]
    /\ out = [p \in Callers |-> <<>>]

DefaultCaps == -1 .. MaxCap     \* values of the module parameter default_capacity

Init ==
    /\ enable_auto_resize \in {0, 1}
    /\ usb_key_present = 0
    /\ device_registered = 0
    /\ usb_pc = "idle"
    /\ usb_ev = NoEv
    /\ \E default_capacity \in DefaultCaps : initialize_buffer(default_capacity)
    /\ InitCallers
    /\ trace = <<>>

(***************************************************************************)
(* Return of a call: the call is done with its result.                     *)
(***************************************************************************)
Return(p, r, result, copied) ==
    /\ pc' = [pc EXCEPT ![p] = "done"]
    /\ req' = [req EXCEPT ![p] = r]
    /\ ret' = [ret EXCEPT ![p] = result]
    /\ out' = [out EXCEPT ![p] = copied]

Admit(p, r) ==
    /\ pc' = [pc EXCEPT ![p] = "wait"]
    /\ req' = [req EXCEPT ![p] = r]
    /\ ret' = [ret EXCEPT ![p] = 0]
    /\ out' = [out EXCEPT ![p] = <<>>]

(***************************************************************************)
(* buffer_open / buffer_release.                                           *)
(***************************************************************************)
buffer_open(p) ==
    /\ pc[p] = "idle"
    /\ Return(p, [NoReq EXCEPT !.fn = "open"],
              IF usb_key_present = 0 THEN -ENODEV ELSE 0, <<>>)
    /\ UNCHANGED <<cfg, gate, usb, store, stats, op_lock>>

buffer_release(p) ==
    /\ pc[p] = "idle"
    /\ Return(p, [NoReq EXCEPT !.fn = "release"], 0, <<>>)
    /\ UNCHANGED <<cfg, gate, usb, store, stats, op_lock>>

(***************************************************************************)
(* Start of read, write and ioctl: everything before mutex_lock.           *)
(***************************************************************************)
\* buffer_read accepting only a byte count of sizeof(int), as buffer_write does
buffer_read_start_exact_size(p, count) ==
    LET r == [NoReq EXCEPT !.fn = "read"] IN
    /\ pc[p] = "idle"
    /\ IF usb_key_present = 0 THEN Return(p, r, -ENODEV, <<>>)
       ELSE IF count # SizeofInt THEN Return(p, r, -EINVAL, <<>>)
       ELSE Admit(p, r)
    /\ UNCHANGED <<cfg, gate, usb, store, stats, op_lock>>

buffer_read_start(p, count) ==
    LET r == [NoReq EXCEPT !.fn = "read"] IN
    /\ pc[p] = "idle"
    /\ IF usb_key_present = 0 THEN Return(p, r, -ENODEV, <<>>)
       ELSE IF count < SizeofInt THEN Return(p, r, -EINVAL, <<>>)
       ELSE Admit(p, r)
    /\ UNCHANGED <<cfg, gate, usb, store, stats, op_lock>>

\* buffer_write checking the byte count before the presence of the key
buffer_write_start_size_first(p, count, value, fault) ==
    LET r == [NoReq EXCEPT !.fn = "write", !.arg = value] IN
    /\ pc[p] = "idle"
    /\ IF count # SizeofInt THEN Return(p, r, -EINVAL, <<>>)
       ELSE IF usb_key_present = 0 THEN Return(p, r, -ENODEV, <<>>)
       ELSE IF fault THEN Return(p, r, -EFAULT, <<>>)
       ELSE Admit(p, r)
    /\ UNCHANGED <<cfg, gate, usb, store, stats, op_lock>>

buffer_write_start(p, count, value, fault) ==
    LET r == [NoReq EXCEPT !.fn = "write", !.arg = value] IN
    /\ pc[p] = "idle"
    /\ IF usb_key_present = 0 THEN Return(p, r, -ENODEV, <<>>)
       ELSE IF count # SizeofInt THEN Return(p, r, -EINVAL, <<>>)
       ELSE IF fault THEN Return(p, r, -EFAULT, <<>>)
       ELSE Admit(p, r)
    /\ UNCHANGED <<cfg, gate, usb, store, stats, op_lock>>

buffer_ioctl_start(p, cmd, arg) ==
    LET r == [NoReq EXCEPT !.fn = "ioctl", !.cmd = cmd, !.arg = arg] IN
    /\ pc[p] = "idle"
    /\ IF usb_key_present = 0 THEN Return(p, r, -ENODEV, <<>>)
       ELSE Admit(p, r)
    /\ UNCHANGED <<cfg, gate, usb, store, stats, op_lock>>

(***************************************************************************)
(* mutex_lock(&dev_buffer->op_lock).                                       *)
(***************************************************************************)
\* mutex_lock returning without waiting for the owner to unlock
mutex_lock_no_wait(p) ==
    /\ pc[p] = "wait"
    /\ op_lock' = p
    /\ pc' = [pc EXCEPT ![p] = "cs"]
    /\ UNCHANGED <<cfg, gate, usb, store, stats, req, ret, out>>

mutex_lock(p) ==
    /\ pc[p] = "wait"
    /\ op_lock = 0
    /\ op_lock' = p
    /\ pc' = [pc EXCEPT ![p] = "cs"]
    /\ UNCHANGED <<cfg, gate, usb, store, stats, req, ret, out>>

(***************************************************************************)
(* Critical sections: from after mutex_lock to the return.                 *)
(***************************************************************************)
\* an error path that returns without mutex_unlock
Unlock_on_success_only(p, r, result, copied) ==
    /\ op_lock' = IF result < 0 THEN op_lock ELSE 0
    /\ Return(p, r, result, copied)

Unlock(p, r, result, copied) ==
    /\ op_lock' = 0
    /\ Return(p, r, result, copied)

SetStore(s) ==
    /\ elements' = s.elements
    /\ capacity' = s.capacity
    /\ position' = s.position

Bump(counter) == [stats EXCEPT ![counter] = @ + 1]

\* buffer_write always growing to the minimum capacity
buffer_write_store_no_doubling(value, allocOk) ==
    LET cur == [ret |-> 0, elements |-> elements, capacity |-> capacity, position |-> position]
        grown == IF position >= capacity
                 THEN IF enable_auto_resize # 0
                      THEN resize_buffer(MinGrowCapacity, allocOk)
                      ELSE [cur EXCEPT !.ret = -ENOSPC]
                 ELSE cur
    IN IF grown.ret < 0 \/ grown.position >= grown.capacity
       THEN [cur EXCEPT !.ret = -ENOSPC]
       ELSE [ret |-> SizeofInt,
             elements |-> [grown.elements EXCEPT ![grown.position] = value],
             capacity |-> grown.capacity,
             position |-> grown.position + 1]

\* buffer_write testing "position > capacity" for a full store
buffer_write_store_off_by_one(value, allocOk) ==
    IF position > capacity
    THEN [ret |-> -ENOSPC, elements |-> elements, capacity |-> capacity, position |-> position]
    ELSE [ret |-> SizeofInt,
          elements |-> IF position \in DOMAIN elements
                       THEN [elements EXCEPT ![position] = value] ELSE elements,
          capacity |-> capacity,
          position |-> position + 1]

\* buffer_write incrementing the position before it stores the value
buffer_write_store_pre_increment(value, allocOk) ==
    LET cur == [ret |-> 0, elements |-> elements, capacity |-> capacity, position |-> position]
        grown == IF position >= capacity
                 THEN IF enable_auto_resize # 0
                      THEN resize_buffer(max(capacity * 2, MinGrowCapacity), allocOk)
                      ELSE [cur EXCEPT !.ret = -ENOSPC]
                 ELSE cur
    IN IF grown.ret < 0
       THEN [cur EXCEPT !.ret = -ENOSPC]
       ELSE [ret |-> SizeofInt,
             elements |-> [grown.elements EXCEPT ![grown.position + 1] = value],
             capacity |-> grown.capacity,
             position |-> grown.position + 1]

\* buffer_write returning the error of the failed resize_buffer
buffer_write_store_surfaces_enomem(value, allocOk) ==
    LET cur == [ret |-> 0, elements |-> elements, capacity |-> capacity, position |-> position]
        grown == IF position >= capacity
                 THEN IF enable_auto_resize # 0
                      THEN resize_buffer(max(capacity * 2, MinGrowCapacity), allocOk)
                      ELSE [cur EXCEPT !.ret = -ENOSPC]
                 ELSE cur
    IN IF grown.ret < 0
       THEN [cur EXCEPT !.ret = grown.ret]
       ELSE [ret |-> SizeofInt,
             elements |-> [grown.elements EXCEPT ![grown.position] = value],
             capacity |-> grown.capacity,
             position |-> grown.position + 1]

\* the store left by the critical section of buffer_write; ret < 0 when the
\* push was rejected
buffer_write_store(value, allocOk) ==
    LET cur == [ret |-> 0, elements |-> elements, capacity |-> capacity, position |-> position]
        grown == IF position >= capacity
                 THEN IF enable_auto_resize # 0
                      THEN resize_buffer(max(capacity * 2, MinGrowCapacity), allocOk)
                      ELSE [cur EXCEPT !.ret = -ENOSPC]
                 ELSE cur
    IN IF grown.ret < 0
       THEN [cur EXCEPT !.ret = -ENOSPC]
       ELSE [ret |-> SizeofInt,
             elements |-> [grown.elements EXCEPT ![grown.position] = value],
             capacity |-> grown.capacity,
             position |-> grown.position + 1]

\* buffer_write counting every call as a push
buffer_write_body_counts_every_call(p, allocOk) ==
    LET s == buffer_write_store(req[p].arg, allocOk) IN
    /\ pc[p] = "cs"
    /\ req[p].fn = "write"
    /\ SetStore(s)
    /\ stats' = Bump("push_count")
    /\ Unlock(p, req[p], s.ret, <<>>)
    /\ UNCHANGED <<cfg, gate, usb>>

\* buffer_write testing usb_key_present again once it holds the lock
\* the allocations and releases of one buffer_write
buffer_write_heap(allocOk) ==
    IF position >= capacity /\ enable_auto_resize # 0
    THEN resize_buffer_heap(max(capacity * 2, MinGrowCapacity), allocOk)
    ELSE [kzalloc |-> 0, kfree |-> 0]

buffer_write_body_rechecks_presence(p, allocOk) ==
    LET s == buffer_write_store(req[p].arg, allocOk) IN
    /\ pc[p] = "cs"
    /\ req[p].fn = "write"
    /\ IF usb_key_present = 0
       THEN /\ UNCHANGED <<store, stats>>
            /\ Unlock(p, req[p], -ENODEV, <<>>)
       ELSE /\ SetStore(s)
            /\ stats' = IF s.ret < 0 THEN Bump("overflow_count") ELSE Bump("push_count")
            /\ Unlock(p, req[p], s.ret, <<>>)
    /\ UNCHANGED <<cfg, gate, usb>>

buffer_write_body(p, allocOk) ==
    LET s == buffer_write_store(req[p].arg, allocOk) IN
    /\ pc[p] = "cs"
    /\ req[p].fn = "write"
    /\ SetStore(s)
    /\ stats' = IF s.ret < 0 THEN Bump("overflow_count") ELSE Bump("push_count")
    /\ Unlock(p, req[p], s.ret, <<>>)
    /\ UNCHANGED <<cfg, gate, usb>>

\* the store left by the critical section of buffer_read and the value read
\* buffer_read returning the bottom of the stack
buffer_read_store_fifo(fault) ==
    IF position = 0
    THEN [ret |-> 0, position |-> position, copied |-> <<>>]
    ELSE IF fault
    THEN [ret |-> -EFAULT, position |-> (position - 1) + 1, copied |-> <<>>]
    ELSE [ret |-> SizeofInt, position |-> position - 1, copied |-> <<elements[0]>>]

\* buffer_read returning the top element without removing it
buffer_read_store_no_remove(fault) ==
    IF position = 0
    THEN [ret |-> 0, position |-> position, copied |-> <<>>]
    ELSE IF fault
    THEN [ret |-> -EFAULT, position |-> (position - 1) + 1, copied |-> <<>>]
    ELSE [ret |-> SizeofInt, position |-> position, copied |-> <<elements[position - 1]>>]

\* buffer_read leaving position decremented when copy_to_user fails
buffer_read_store_fault_drops(fault) ==
    IF position = 0
    THEN [ret |-> 0, position |-> position, copied |-> <<>>]
    ELSE IF fault
    THEN [ret |-> -EFAULT, position |-> position - 1, copied |-> <<>>]
    ELSE [ret |-> SizeofInt, position |-> position - 1, copied |-> <<elements[position - 1]>>]

buffer_read_store(fault) ==
    IF position = 0
    THEN [ret |-> 0, position |-> position, copied |-> <<>>]
    ELSE IF fault
    THEN [ret |-> -EFAULT, position |-> (position - 1) + 1, copied |-> <<>>]
    ELSE [ret |-> SizeofInt, position |-> position - 1, copied |-> <<elements[position - 1]>>]

\* buffer_read counting the empty result as a pop
buffer_read_body_counts_pop(p, fault) ==
    LET s == buffer_read_store(fault) IN
    /\ pc[p] = "cs"
    /\ req[p].fn = "read"
    /\ position' = s.position
    /\ stats' = IF s.ret < 0 THEN stats ELSE Bump("pop_count")
    /\ Unlock(p, req[p], s.ret, s.copied)
    /\ UNCHANGED <<cfg, gate, usb, elements, capacity>>

buffer_read_body(p, fault) ==
    LET s == buffer_read_store(fault) IN
    /\ pc[p] = "cs"
    /\ req[p].fn = "read"
    /\ position' = s.position
    /\ stats' = IF position = 0 THEN Bump("underflow_count")
                ELSE IF s.ret < 0 THEN stats
                ELSE Bump("pop_count")
    /\ Unlock(p, req[p], s.ret, s.copied)
    /\ UNCHANGED <<cfg, gate, usb, elements, capacity>>

\* buffer_ioctl without the test "value < 0": the negative value becomes a
\* huge size_t that kzalloc cannot satisfy
buffer_ioctl_store_no_sign_check(cmd, value, fault, allocOk) ==
    LET cur == [ret |-> 0, elements |-> elements, capacity |-> capacity,
                position |-> position, copied |-> <<>>]
    IN CASE cmd = INT_STACK_SET_MAX_SIZE ->
                IF fault THEN [cur EXCEPT !.ret = -EFAULT]
                ELSE LET s == resize_buffer(value, allocOk /\ value >= 0)
                     IN [ret |-> s.ret, elements |-> s.elements, capacity |-> s.capacity,
                         position |-> s.position, copied |-> <<>>]
         [] cmd = CMD_GET_CAPACITY ->
                IF fault THEN [cur EXCEPT !.ret = -EFAULT]
                ELSE [cur EXCEPT !.copied = <<capacity>>]
         [] cmd = CMD_GET_USAGE ->
                IF fault THEN [cur EXCEPT !.ret = -EFAULT]
                ELSE [cur EXCEPT !.copied = <<position>>]
         [] cmd = CMD_CLEAR_BUFFER -> [cur EXCEPT !.position = 0]
         [] OTHER -> [cur EXCEPT !.ret = -ENOTTY]

\* buffer_ioctl whose default case leaves result at 0
buffer_ioctl_store_default_ok(cmd, value, fault, allocOk) ==
    LET cur == [ret |-> 0, elements |-> elements, capacity |-> capacity,
                position |-> position, copied |-> <<>>]
    IN CASE cmd = INT_STACK_SET_MAX_SIZE ->
                IF fault THEN [cur EXCEPT !.ret = -EFAULT]
                ELSE IF value < 0 THEN [cur EXCEPT !.ret = -EINVAL]
                ELSE LET s == resize_buffer(value, allocOk)
                     IN [ret |-> s.ret, elements |-> s.elements, capacity |-> s.capacity,
                         position |-> s.position, copied |-> <<>>]
         [] cmd = CMD_GET_CAPACITY ->
                IF fault THEN [cur EXCEPT !.ret = -EFAULT]
                ELSE [cur EXCEPT !.copied = <<capacity>>]
         [] cmd = CMD_GET_USAGE ->
                IF fault THEN [cur EXCEPT !.ret = -EFAULT]
                ELSE [cur EXCEPT !.copied = <<position>>]
         [] cmd = CMD_CLEAR_BUFFER -> [cur EXCEPT !.position = 0]
         [] OTHER -> cur

\* buffer_ioctl refusing to size a stack that already has a capacity
buffer_ioctl_store_configure_once(cmd, value, fault, allocOk) ==
    LET cur == [ret |-> 0, elements |-> elements, capacity |-> capacity,
                position |-> position, copied |-> <<>>]
    IN CASE cmd = INT_STACK_SET_MAX_SIZE ->
                IF fault THEN [cur EXCEPT !.ret = -EFAULT]
                ELSE IF value < 0 THEN [cur EXCEPT !.ret = -EINVAL]
                ELSE IF capacity > 0 THEN [cur EXCEPT !.ret = -EBUSY]
                ELSE LET s == resize_buffer(value, allocOk)
                     IN [ret |-> s.ret, elements |-> s.elements, capacity |-> s.capacity,
                         position |-> s.position, copied |-> <<>>]
         [] cmd = CMD_GET_CAPACITY ->
                IF fault THEN [cur EXCEPT !.ret = -EFAULT]
                ELSE [cur EXCEPT !.copied = <<capacity>>]
         [] cmd = CMD_GET_USAGE ->
                IF fault THEN [cur EXCEPT !.ret = -EFAULT]
                ELSE [cur EXCEPT !.copied = <<position>>]
         [] cmd = CMD_CLEAR_BUFFER -> [cur EXCEPT !.position = 0]
         [] OTHER -> [cur EXCEPT !.ret = -ENOTTY]

\* the result of the switch of buffer_ioctl
\* CMD_CLEAR_BUFFER replacing the array by a zeroed one
buffer_ioctl_store_clear_wipes(cmd, value, fault, allocOk) ==
    LET cur == [ret |-> 0, elements |-> elements, capacity |-> capacity,
                position |-> position, copied |-> <<>>]
    IN CASE cmd = INT_STACK_SET_MAX_SIZE ->
                IF fault THEN [cur EXCEPT !.ret = -EFAULT]
                ELSE IF value < 0 THEN [cur EXCEPT !.ret = -EINVAL]
                ELSE LET s == resize_buffer(value, allocOk)
                     IN [ret |-> s.ret, elements |-> s.elements, capacity |-> s.capacity,
                         position |-> s.position, copied |-> <<>>]
         [] cmd = CMD_GET_CAPACITY ->
                IF fault THEN [cur EXCEPT !.ret = -EFAULT]
                ELSE [cur EXCEPT !.copied = <<capacity>>]
         [] cmd = CMD_GET_USAGE ->
                IF fault THEN [cur EXCEPT !.ret = -EFAULT]
                ELSE [cur EXCEPT !.copied = <<position>>]
         [] cmd = CMD_CLEAR_BUFFER -> [cur EXCEPT !.position = 0, !.elements = kzalloc(capacity)]
         [] OTHER -> [cur EXCEPT !.ret = -ENOTTY]

buffer_ioctl_store(cmd, value, fault, allocOk) ==
    LET cur == [ret |-> 0, elements |-> elements, capacity |-> capacity,
                position |-> position, copied |-> <<>>]
    IN CASE cmd = INT_STACK_SET_MAX_SIZE ->
                IF fault THEN [cur EXCEPT !.ret = -EFAULT]
                ELSE IF value < 0 THEN [cur EXCEPT !.ret = -EINVAL]
                ELSE LET s == resize_buffer(value, allocOk)
                     IN [ret |-> s.ret, elements |-> s.elements, capacity |-> s.capacity,
                         position |-> s.position, copied |-> <<>>]
         [] cmd = CMD_GET_CAPACITY ->
                IF fault THEN [cur EXCEPT !.ret = -EFAULT]
                ELSE [cur EXCEPT !.copied = <<capacity>>]
         [] cmd = CMD_GET_USAGE ->
                IF fault THEN [cur EXCEPT !.ret = -EFAULT]
                ELSE [cur EXCEPT !.copied = <<position>>]
         [] cmd = CMD_CLEAR_BUFFER -> [cur EXCEPT !.position = 0]
         [] OTHER -> [cur EXCEPT !.ret = -ENOTTY]

\* the allocations and releases of one buffer_ioctl
buffer_ioctl_heap(cmd, value, fault, allocOk) ==
    IF cmd = INT_STACK_SET_MAX_SIZE /\ ~fault /\ value >= 0
    THEN resize_buffer_heap(value, allocOk)
    ELSE [kzalloc |-> 0, kfree |-> 0]

\* buffer_ioctl whose CMD_CLEAR_BUFFER also calls init_stats
buffer_ioctl_body_clear_resets_stats(p, fault, allocOk) ==
    LET s == buffer_ioctl_store(req[p].cmd, req[p].arg, fault, allocOk) IN
    /\ pc[p] = "cs"
    /\ req[p].fn = "ioctl"
    /\ SetStore(s)
    /\ stats' = IF req[p].cmd = CMD_CLEAR_BUFFER THEN init_stats ELSE stats
    /\ Unlock(p, req[p], s.ret, s.copied)
    /\ UNCHANGED <<cfg, gate, usb>>

buffer_ioctl_body(p, fault, allocOk) ==
    LET s == buffer_ioctl_store(req[p].cmd, req[p].arg, fault, allocOk) IN
    /\ pc[p] = "cs"
    /\ req[p].fn = "ioctl"
    /\ SetStore(s)
    /\ Unlock(p, req[p], s.ret, s.copied)
    /\ UNCHANGED <<cfg, gate, usb, stats>>

(***************************************************************************)
(* The presence gate: pen_probe and pen_disconnect, register_device and    *)
(* unregister_device.                                                      *)
(***************************************************************************)
\* the identity test rejecting only a device that differs in both ids
Mismatch_both(vid, pid) == vid # usb_vid /\ pid # usb_pid

Mismatch(vid, pid) == vid # usb_vid \/ pid # usb_pid

pen_probe_start(vid, pid) ==
    /\ usb_pc = "idle"
    /\ IF Mismatch(vid, pid)
       THEN /\ usb_ev' = [fn |-> "pen_probe", vid |-> vid, pid |-> pid, ret |-> -ENODEV]
            /\ usb_pc' = "returned"
            /\ UNCHANGED usb_key_present
       ELSE /\ usb_key_present' = 1
            /\ usb_pc' = "register_device"
            /\ usb_ev' = [fn |-> "pen_probe", vid |-> vid, pid |-> pid, ret |-> 0]
    /\ UNCHANGED <<cfg, device_registered, store, stats, op_lock, callers>>

\* register_device and the rest of pen_probe; result is what misc_register returns
register_device(result) ==
    /\ usb_pc = "register_device"
    /\ usb_pc' = "returned"
    /\ IF device_registered # 0
       THEN /\ usb_ev' = [usb_ev EXCEPT !.ret = 0]
            /\ UNCHANGED device_registered
       ELSE IF result < 0
       THEN /\ usb_ev' = [usb_ev EXCEPT !.ret = result]
            /\ UNCHANGED device_registered
       ELSE /\ usb_ev' = [usb_ev EXCEPT !.ret = 0]
            /\ device_registered' = 1
    /\ UNCHANGED <<cfg, usb_key_present, store, stats, op_lock, callers>>

pen_disconnect_start(vid, pid) ==
    /\ usb_pc = "idle"
    /\ IF Mismatch(vid, pid)
       THEN /\ usb_ev' = [fn |-> "pen_disconnect", vid |-> vid, pid |-> pid, ret |-> 0]
            /\ usb_pc' = "returned"
            /\ UNCHANGED usb_key_present
       ELSE /\ usb_key_present' = 0
            /\ usb_pc' = "unregister_device"
            /\ usb_ev' = [fn |-> "pen_disconnect", vid |-> vid, pid |-> pid, ret |-> 0]
    /\ UNCHANGED <<cfg, device_registered, store, stats, op_lock, callers>>

\* unregister_device dropping the buffered elements
unregister_device_clears ==
    /\ usb_pc = "unregister_device"
    /\ usb_pc' = "returned"
    /\ device_registered' = 0
    /\ position' = 0
    /\ UNCHANGED <<cfg, usb_key_present, usb_ev, elements, capacity, stats, op_lock, callers>>

\* unregister_device and the rest of pen_disconnect
unregister_device ==
    /\ usb_pc = "unregister_device"
    /\ usb_pc' = "returned"
    /\ device_registered' = 0
    /\ UNCHANGED <<cfg, usb_key_present, usb_ev, store, stats, op_lock, callers>>

\* the handler has returned to the USB core
usb_return ==
    /\ usb_pc = "returned"
    /\ usb_pc' = "idle"
    /\ usb_ev' = NoEv
    /\ UNCHANGED <<cfg, gate, store, stats, op_lock, callers>>

\* the caller is back in user space
call_return(p) ==
    /\ pc[p] = "done"
    /\ pc' = [pc EXCEPT ![p] = "idle"]
    /\ req' = [req EXCEPT ![p] = NoReq]
    /\ ret' = [ret EXCEPT ![p] = 0]
    /\ out' = [out EXCEPT ![p] = <<>>]
    /\ UNCHANGED <<cfg, gate, usb, store, stats, op_lock>>

(***************************************************************************)
(* The driver under concurrent callers and hot-plug events.                *)
(***************************************************************************)
Open == \E p \in Procs : buffer_open(p) /\ UNCHANGED log
Release == \E p \in Procs : buffer_release(p) /\ UNCHANGED log
\* reads and writes are admitted while the counters add up to less than MaxCalls
Counted ==
    stats.push_count + stats.pop_count + stats.overflow_count + stats.underflow_count
    + InFlight("read") + InFlight("write")
ReadBudget == Counted < MaxCalls
WriteBudget == Counted < MaxCalls

ReadStart ==
    \E p \in Procs, count \in Sizes :
        ReadBudget /\ buffer_read_start(p, count) /\ UNCHANGED log
WriteStart ==
    \E p \in Procs, count \in Sizes, value \in Values, fault \in BOOLEAN :
        WriteBudget /\ buffer_write_start(p, count, value, fault) /\ UNCHANGED log
IoctlStart ==
    \E p \in Procs, cmd \in Cmds, arg \in SetArgs :
        /\ cmd # INT_STACK_SET_MAX_SIZE => arg = 0
        /\ buffer_ioctl_start(p, cmd, arg)
        /\ UNCHANGED log
Lock == \E p \in Procs : mutex_lock(p) /\ UNCHANGED log
ReadBody == \E p \in Procs, fault \in BOOLEAN : buffer_read_body(p, fault) /\ UNCHANGED log
WriteBody == \E p \in Procs, allocOk \in BOOLEAN : buffer_write_body(p, allocOk) /\ UNCHANGED log
IoctlBody ==
    \E p \in Procs, fault \in BOOLEAN, allocOk \in BOOLEAN :
        buffer_ioctl_body(p, fault, allocOk) /\ UNCHANGED log
Probe == \E id \in Identities : pen_probe_start(id[1], id[2]) /\ UNCHANGED log
Register == \E result \in MiscRegisterErrors \cup {0} : register_device(result) /\ UNCHANGED log
Disconnect == \E id \in Identities : pen_disconnect_start(id[1], id[2]) /\ UNCHANGED log
Unregister == unregister_device /\ UNCHANGED log
UsbReturn == usb_return /\ UNCHANGED log
CallReturn == \E p \in Procs : call_return(p) /\ UNCHANGED log

Next ==
    \/ Open
    \/ Release
    \/ ReadStart
    \/ WriteStart
    \/ IoctlStart
    \/ Lock
    \/ ReadBody
    \/ WriteBody
    \/ IoctlBody
    \/ Probe
    \/ Register
    \/ Disconnect
    \/ Unregister
    \/ UsbReturn
    \/ CallReturn

Spec == Init /\ [][Next]_vars

TypeOK ==
    /\ usb_key_present \in {0, 1}
    /\ device_registered \in {0, 1}
    /\ op_lock \in Callers \cup {0}
    /\ position \in Nat
    /\ capacity \in Nat
    /\ DOMAIN elements = 0 .. (capacity - 1)

(***************************************************************************)
(* Fill and drain: the module is loaded with growth disabled, the key is   *)
(* plugged in, and one caller pushes values while there is room and then   *)
(* pops until the store reports "no data".  trace records the pushes that  *)
(* were accepted, the results of the pops and the changes of presence.     *)
(* SpecLIFO keeps the key plugged in; SpecCycle also unplugs and replugs   *)
(* it at any moment.                                                       *)
(***************************************************************************)
Entry(op, val) == [op |-> op, val |-> val]
Ops(t) == [i \in 1 .. Len(t) |-> t[i].op]
Vals(t) == [i \in 1 .. Len(t) |-> t[i].val]
IsPush(e) == e.op = "push"
IsPop(e) == e.op = "pop"
IsEmpty(e) == e.op = "empty"
IsDetach(e) == e.op = "detach"
IsAttach(e) == e.op = "attach"
Pushed == Vals(SelectSeq(trace, IsPush))
Popped == Vals(SelectSeq(trace, IsPop))
Reverse(q) == [i \in 1 .. Len(q) |-> q[Len(q) + 1 - i]]
Draining == \E i \in 1 .. Len(trace) : trace[i].op \in {"pop", "empty"}
Drained == \E i \in 1 .. Len(trace) : trace[i].op = "empty"

InitFill ==
    /\ enable_auto_resize = 0
    /\ usb_key_present = 0
    /\ device_registered = 0
    /\ usb_pc = "idle"
    /\ usb_ev = NoEv
    /\ \E default_capacity \in 0 .. MaxLifoCap : initialize_buffer(default_capacity)
    /\ InitCallers
    /\ trace = <<>>

FillAttach ==
    /\ usb_key_present = 0
    /\ pen_probe_start(usb_vid, usb_pid)
    /\ trace' = Append(trace, Entry("attach", 0))
FillRegister == register_device(0) /\ UNCHANGED log
FillDetach ==
    /\ usb_key_present = 1
    /\ Len(SelectSeq(trace, IsDetach)) < MaxCycles
    /\ pen_disconnect_start(usb_vid, usb_pid)
    /\ trace' = Append(trace, Entry("detach", 0))
FillWriteStart ==
    \E p \in Procs, value \in Values :
        /\ ~Draining
        /\ position < capacity
        /\ buffer_write_start(p, SizeofInt, value, FALSE)
        /\ UNCHANGED log
FillReadStart ==
    \E p \in Procs :
        /\ ~Drained
        /\ buffer_read_start(p, SizeofInt)
        /\ UNCHANGED log
FillWriteBody ==
    \E p \in Procs :
        /\ buffer_write_body(p, TRUE)
        /\ trace' = IF ret'[p] = SizeofInt
                    THEN Append(trace, Entry("push", req[p].arg))
                    ELSE trace
FillReadBody ==
    \E p \in Procs :
        /\ buffer_read_body(p, FALSE)
        /\ trace' = IF ret'[p] = SizeofInt
                    THEN Append(trace, Entry("pop", out'[p][1]))
                    ELSE Append(trace, Entry("empty", 0))

NextLIFO ==
    \/ FillAttach
    \/ FillRegister
    \/ UsbReturn
    \/ FillWriteStart
    \/ FillReadStart
    \/ Lock
    \/ FillWriteBody
    \/ FillReadBody
    \/ CallReturn

SpecLIFO == InitFill /\ [][NextLIFO]_vars

NextCycle ==
    \/ FillAttach
    \/ FillRegister
    \/ FillDetach
    \/ Unregister
    \/ UsbReturn
    \/ FillWriteStart
    \/ FillReadStart
    \/ Lock
    \/ FillWriteBody
    \/ FillReadBody
    \/ CallReturn

SpecCycle == InitFill /\ [][NextCycle]_vars

(***************************************************************************)
(* Growth: the module was loaded with automatic growth enabled, the key is *)
(* plugged in and the store has been filled to its capacity; a caller      *)
(* pushes one more value.                                                  *)
(***************************************************************************)
InitGrow ==
    /\ enable_auto_resize = 1
    /\ usb_key_present = 1
    /\ device_registered = 1
    /\ usb_pc = "idle"
    /\ usb_ev = NoEv
    /\ capacity \in 0 .. MaxGrowCap
    /\ elements \in [0 .. (capacity - 1) -> Values]
    /\ position = capacity
    /\ stats = [init_stats EXCEPT !.push_count = capacity]
    /\ op_lock = 0
    /\ InitCallers
    /\ trace = <<>>

GrowWriteStart ==
    \E p \in Procs, value \in Values :
        /\ position = capacity
        /\ stats.overflow_count = 0
        /\ buffer_write_start(p, SizeofInt, value, FALSE)
        /\ UNCHANGED log

NextGrow ==
    \/ GrowWriteStart
    \/ Lock
    \/ WriteBody
    \/ CallReturn

SpecGrow == InitGrow /\ [][NextGrow]_vars

(***************************************************************************)
(* Two callers at once: every caller may be anywhere in a push, a pop, a   *)
(* set-capacity or a clear while the configured key is plugged and         *)
(* unplugged.  Each caller pushes its own number.  Calls with a bad byte   *)
(* count, faulting user copies, foreign keys and a failing misc_register   *)
(* are left to Spec.                                                       *)
(***************************************************************************)
ConcWriteStart ==
    \E p \in Callers :
        WriteBudget /\ buffer_write_start(p, SizeofInt, p, FALSE) /\ UNCHANGED log
ConcReadStart ==
    \E p \in Callers :
        ReadBudget /\ buffer_read_start(p, SizeofInt) /\ UNCHANGED log
ConcIoctlStart ==
    \E p \in Callers, cmd \in {INT_STACK_SET_MAX_SIZE, CMD_CLEAR_BUFFER}, arg \in 0 .. MaxConcCap :
        /\ cmd # INT_STACK_SET_MAX_SIZE => arg = 0
        /\ buffer_ioctl_start(p, cmd, arg)
        /\ UNCHANGED log
ConcLock == \E p \in Callers : mutex_lock(p) /\ UNCHANGED log
ConcWriteBody == \E p \in Callers, allocOk \in BOOLEAN : buffer_write_body(p, allocOk) /\ UNCHANGED log
ConcReadBody == \E p \in Callers : buffer_read_body(p, FALSE) /\ UNCHANGED log
ConcIoctlBody == \E p \in Callers, allocOk \in BOOLEAN : buffer_ioctl_body(p, FALSE, allocOk) /\ UNCHANGED log
ConcReturn == \E p \in Callers : call_return(p) /\ UNCHANGED log
ConcProbe == pen_probe_start(usb_vid, usb_pid) /\ UNCHANGED log
ConcDisconnect == pen_disconnect_start(usb_vid, usb_pid) /\ UNCHANGED log

NextConc ==
    \/ ConcWriteStart
    \/ ConcReadStart
    \/ ConcIoctlStart
    \/ ConcLock
    \/ ConcWriteBody
    \/ ConcReadBody
    \/ ConcIoctlBody
    \/ ConcReturn
    \/ ConcProbe
    \/ FillRegister
    \/ ConcDisconnect
    \/ Unregister
    \/ UsbReturn

SpecConc == Init /\ [][NextConc]_vars

(***************************************************************************)
(* History: the key is plugged in, earlier pushes have left some elements  *)
(* in the store, and two callers issue pushes, pops and the four control   *)
(* commands.  When a call leaves its critical section, trace records it    *)
(* with its input, the outcome of its allocation and its result, so that   *)
(* trace lists the calls in the order in which they held op_lock.  Each    *)
(* caller pushes its own number.                                           *)
(***************************************************************************)
Call(fn, cmd, arg, allocOk, result, copied) ==
    [fn |-> fn, cmd |-> cmd, arg |-> arg, alloc |-> allocOk, ret |-> result, out |-> copied]

\* the value that the earlier pushes left at index i
Filled(i) == 10 + i

InitHist ==
    /\ enable_auto_resize \in {0, 1}
    /\ usb_key_present = 1
    /\ device_registered = 1
    /\ usb_pc = "idle"
    /\ usb_ev = NoEv
    /\ capacity \in 0 .. MaxConcCap
    /\ position \in 0 .. capacity
    /\ elements = [i \in 0 .. (capacity - 1) |-> IF i < position THEN Filled(i) ELSE 0]
    /\ stats = [init_stats EXCEPT !.push_count = position]
    /\ op_lock = 0
    /\ InitCallers
    /\ trace = <<>>

\* calls are admitted while fewer than MaxHist are recorded or under way
HistBudget ==
    Len(trace) + Cardinality({q \in Callers : pc[q] \in {"wait", "cs"}}) < MaxHist

HistWriteStart ==
    \E p \in Callers :
        HistBudget /\ buffer_write_start(p, SizeofInt, p, FALSE) /\ UNCHANGED log
HistReadStart ==
    \E p \in Callers :
        HistBudget /\ buffer_read_start(p, SizeofInt) /\ UNCHANGED log
HistIoctlStart ==
    \E p \in Callers, cmd \in Cmds \ {CMD_UNKNOWN}, arg \in 0 .. MaxConcCap :
        /\ HistBudget
        /\ cmd # INT_STACK_SET_MAX_SIZE => arg = 0
        /\ buffer_ioctl_start(p, cmd, arg)
        /\ UNCHANGED log
HistWriteBody ==
    \E p \in Callers, allocOk \in BOOLEAN :
        /\ buffer_write_body(p, allocOk)
        /\ trace' = Append(trace, Call("write", 0, req[p].arg, allocOk, ret'[p], out'[p]))
HistReadBody ==
    \E p \in Callers :
        /\ buffer_read_body(p, FALSE)
        /\ trace' = Append(trace, Call("read", 0, 0, TRUE, ret'[p], out'[p]))
HistIoctlBody ==
    \E p \in Callers, allocOk \in BOOLEAN :
        /\ buffer_ioctl_body(p, FALSE, allocOk)
        /\ trace' = Append(trace, Call("ioctl", req[p].cmd, req[p].arg, allocOk, ret'[p], out'[p]))

NextHist ==
    \/ HistWriteStart
    \/ HistReadStart
    \/ HistIoctlStart
    \/ ConcLock
    \/ HistWriteBody
    \/ HistReadBody
    \/ HistIoctlBody
    \/ ConcReturn

SpecHist == InitHist /\ [][NextHist]_vars

(***************************************************************************)
(* Presence race: one caller issues pushes, pops and control commands and  *)
(* the configured key is unplugged at any moment.  trace records the write *)
(* of usb_key_present by pen_disconnect, each call that is rejected at its *)
(* presence check, and each admitted call when it leaves its critical      *)
(* section.                                                                *)
(***************************************************************************)
Flip(fn) == Call(fn, 0, 0, TRUE, 0, <<>>)
\* calls recorded or under way
RaceCalls ==
    Len(SelectSeq(trace, LAMBDA e : e.fn \in {"read", "write", "ioctl"}))
    + Cardinality({q \in Callers : pc[q] \in {"wait", "cs"}})
\* the record of a call that its presence check rejects
Rejected(r) ==
    IF usb_key_present = 0
    THEN Append(trace, Call(r.fn, r.cmd, r.arg, TRUE, -ENODEV, <<>>))
    ELSE trace

RaceDetach ==
    /\ usb_key_present = 1
    /\ pen_disconnect_start(usb_vid, usb_pid)
    /\ trace' = Append(trace, Flip("detach"))
RaceWriteStart ==
    \E p \in Procs, value \in Values :
        /\ RaceCalls < MaxHist
        /\ buffer_write_start(p, SizeofInt, value, FALSE)
        /\ trace' = Rejected([fn |-> "write", cmd |-> 0, arg |-> value])
RaceReadStart ==
    \E p \in Procs :
        /\ RaceCalls < MaxHist
        /\ buffer_read_start(p, SizeofInt)
        /\ trace' = Rejected([fn |-> "read", cmd |-> 0, arg |-> 0])
RaceIoctlStart ==
    \E p \in Procs, cmd \in Cmds \ {CMD_UNKNOWN}, arg \in 0 .. MaxConcCap :
        /\ RaceCalls < MaxHist
        /\ cmd # INT_STACK_SET_MAX_SIZE => arg = 0
        /\ buffer_ioctl_start(p, cmd, arg)
        /\ trace' = Rejected([fn |-> "ioctl", cmd |-> cmd, arg |-> arg])

NextRace ==
    \/ RaceDetach
    \/ Unregister
    \/ UsbReturn
    \/ RaceWriteStart
    \/ RaceReadStart
    \/ RaceIoctlStart
    \/ Lock
    \/ HistWriteBody
    \/ HistReadBody
    \/ HistIoctlBody
    \/ CallReturn

SpecRace == InitHist /\ [][NextRace]_vars

(***************************************************************************)
(* Scheduling: the key stays plugged in and two callers issue reads,       *)
(* writes and control calls with every command, with user copies that may  *)
(* fault inside the critical section and allocations that may fail.  A     *)
(* caller that runs is never stopped for ever (WF on its critical section  *)
(* and on its return), and a caller sleeping in mutex_lock is woken when   *)
(* the owner unlocks: the mutex hands the lock to its waiters, so a waiter *)
(* is not passed over for ever (SF on mutex_lock).                         *)
(***************************************************************************)
LiveIoctlStart ==
    \E p \in Callers, cmd \in Cmds, arg \in -1 .. MaxConcCap :
        /\ cmd # INT_STACK_SET_MAX_SIZE => arg = 0
        /\ buffer_ioctl_start(p, cmd, arg)
        /\ UNCHANGED log
LiveLock(p) == mutex_lock(p) /\ UNCHANGED log
LiveBody(p) ==
    /\ \/ \E fault \in BOOLEAN : buffer_read_body(p, fault)
       \/ \E allocOk \in BOOLEAN : buffer_write_body(p, allocOk)
       \/ \E fault \in BOOLEAN, allocOk \in BOOLEAN : buffer_ioctl_body(p, fault, allocOk)
    /\ UNCHANGED log
LiveReturn(p) == call_return(p) /\ UNCHANGED log

NextLive ==
    \/ ConcReadStart
    \/ ConcWriteStart
    \/ LiveIoctlStart
    \/ \E p \in Callers : LiveLock(p)
    \/ \E p \in Callers : LiveBody(p)
    \/ \E p \in Callers : LiveReturn(p)

Scheduling ==
    \A p \in Callers :
        /\ SF_vars(LiveLock(p))
        /\ WF_vars(LiveBody(p))
        /\ WF_vars(LiveReturn(p))

SpecLive == InitHist /\ [][NextLive]_vars /\ Scheduling

(***************************************************************************)
(* Loading the module: integer_buffer_init runs initialize_buffer and then *)
(* usb_register; the USB core delivers probes from usb_register on, the    *)
(* first of them inside usb_register when the key is attached already.     *)
(* rmmod runs integer_buffer_exit.                                         *)
(* Before the module is loaded, and after a failed load, dev_buffer does   *)
(* not exist: the store variables are kept at NULL and 0.  trace records   *)
(* the module parameter default_capacity and the result of each step.      *)
(***************************************************************************)
DefaultCapacity == 16    \* default_capacity when insmod passes no value
LoadCaps == DefaultCaps \cup {DefaultCapacity}

NoStore ==
    /\ elements = NULL
    /\ capacity = 0
    /\ position = 0
    /\ stats = init_stats
    /\ op_lock = 0

\* the assignments of initialize_buffer, and of a kfree of everything
SetInitialized(cap) ==
    /\ SetStore([elements |-> IF cap > 0 THEN kzalloc(cap) ELSE NULL,
                 capacity |-> IF cap > 0 THEN cap ELSE 0,
                 position |-> 0])
    /\ stats' = init_stats
    /\ op_lock' = 0
SetNoStore ==
    /\ SetStore([elements |-> NULL, capacity |-> 0, position |-> 0])
    /\ stats' = init_stats
    /\ op_lock' = 0

InitLoad ==
    /\ enable_auto_resize \in {0, 1}
    /\ usb_key_present = 0
    /\ device_registered = 0
    /\ usb_pc = "insmod"
    /\ usb_ev = NoEv
    /\ NoStore
    /\ InitCallers
    /\ trace = <<>>

\* integer_buffer_init going on to usb_register whatever initialize_buffer returned
integer_buffer_init_ignores_result(default_capacity, devOk, allocOk) ==
    /\ usb_pc = "insmod"
    /\ usb_pc' = "usb_register"
    /\ IF devOk /\ (default_capacity > 0 => allocOk)
       THEN SetInitialized(default_capacity)
       ELSE SetNoStore
    /\ trace' = <<Call("initialize_buffer", 0, default_capacity, devOk /\ allocOk,
                       IF devOk /\ (default_capacity > 0 => allocOk) THEN 0 ELSE -ENOMEM, <<>>)>>
    /\ UNCHANGED <<cfg, usb_key_present, device_registered, usb_ev, callers>>

\* integer_buffer_init up to the end of initialize_buffer; devOk and allocOk
\* tell whether the two kzalloc calls succeed
integer_buffer_init(default_capacity, devOk, allocOk) ==
    LET result == IF devOk /\ (default_capacity > 0 => allocOk) THEN 0 ELSE -ENOMEM IN
    /\ usb_pc = "insmod"
    /\ IF result < 0
       THEN usb_pc' = "failed" /\ SetNoStore
       ELSE usb_pc' = "usb_register" /\ SetInitialized(default_capacity)
    /\ trace' = <<Call("initialize_buffer", 0, default_capacity, devOk /\ allocOk, result, <<>>)>>
    /\ UNCHANGED <<cfg, usb_key_present, device_registered, usb_ev, callers>>

\* usb_register up to the point where pen_driver is on the bus.  From there
\* on the USB core calls pen_probe, at once for a key that is attached
\* already, and a device node that a probe has registered can be opened,
\* all before usb_register returns.  A failing usb_register ends the load.
usb_register(result) ==
    /\ usb_pc = "usb_register"
    /\ IF result < 0
       THEN /\ usb_pc' = "failed"
            /\ SetNoStore
            /\ trace' = Append(trace, Call("usb_register", 0, 0, TRUE, result, <<>>))
       ELSE /\ usb_pc' = "idle"
            /\ UNCHANGED <<store, stats, op_lock, trace>>
    /\ UNCHANGED <<cfg, usb_key_present, device_registered, usb_ev, callers>>

\* usb_register returns 0 and integer_buffer_init with it: the second entry
\* of trace marks the end of the load.  The return waits for nothing: a
\* pen_probe or pen_disconnect of the hub thread, and a call of a process,
\* may be in progress.
integer_buffer_init_return ==
    /\ usb_pc \notin {"insmod", "usb_register", "failed"}
    /\ Len(trace) = 1
    /\ trace' = Append(trace, Call("usb_register", 0, 0, TRUE, 0, <<>>))
    /\ UNCHANGED <<cfg, gate, usb, store, stats, op_lock, callers>>

\* rmmod, which the kernel admits when no file of the device is in use:
\* usb_deregister (pen_disconnect for a bound key), unregister_device and the
\* release of the array and of dev_buffer.  usb_deregister takes the lock
\* of the device, which the USB core holds around pen_probe and
\* pen_disconnect, so it acts when no handler is running.  The module is
\* gone and can be loaded again.
integer_buffer_exit ==
    /\ usb_pc = "idle"
    /\ Len(trace) = 2
    /\ \A p \in Callers : pc[p] \notin {"wait", "cs"}
    /\ usb_key_present' = 0
    /\ device_registered' = 0
    /\ SetNoStore
    /\ usb_pc' = "insmod"
    /\ UNCHANGED <<cfg, usb_ev, callers, trace>>

LoadInit ==
    \E default_capacity \in LoadCaps, devOk \in BOOLEAN, allocOk \in BOOLEAN :
        integer_buffer_init(default_capacity, devOk, allocOk)
LoadUsbRegister == \E result \in {0, -ENOMEM} : usb_register(result)

NextLoad ==
    \/ LoadInit
    \/ LoadUsbRegister
    \/ integer_buffer_init_return
    \/ integer_buffer_exit
    \/ Probe
    \/ Register
    \/ Disconnect
    \/ Unregister
    \/ UsbReturn
    \/ usb_pc \notin {"insmod", "usb_register", "failed"} /\ Open
    \/ usb_pc \notin {"insmod", "usb_register", "failed"} /\ IoctlStart
    \/ Lock
    \/ IoctlBody
    \/ CallReturn

SpecLoad == InitLoad /\ [][NextLoad]_vars

(***************************************************************************)
(* The driver without the USB gate (the earlier int_stack module), as      *)
(* functions of its state u = [elements, capacity, position, stats] and    *)
(* the inputs of one call.  In the scenario the key stays plugged in, one  *)
(* caller issues calls to the gated driver, and trace holds the state of   *)
(* the ungated driver, which is given the same calls with the same byte    *)
(* counts, faults and allocation outcomes, and the result of its last      *)
(* call.                                                                   *)
(***************************************************************************)
ungated_resize_buffer(u, new_capacity, allocOk) ==
    IF new_capacity = 0
    THEN [u EXCEPT !.ret = 0, !.elements = NULL, !.capacity = 0, !.position = 0]
    ELSE IF ~allocOk
    THEN [u EXCEPT !.ret = -ENOMEM]
    ELSE LET copy_size == IF u.elements # NULL /\ u.position > 0
                          THEN min(u.position, new_capacity)
                          ELSE 0
         IN [u EXCEPT !.ret = 0,
                      !.elements = [i \in 0 .. (new_capacity - 1) |->
                                       IF i < copy_size THEN u.elements[i] ELSE 0],
                      !.capacity = new_capacity,
                      !.position = copy_size]

ungated_buffer_ioctl(u, cmd, value, fault, allocOk) ==
    LET v == [u EXCEPT !.ret = 0, !.out = <<>>]
    IN CASE cmd = INT_STACK_SET_MAX_SIZE ->
                IF fault THEN [v EXCEPT !.ret = -EFAULT]
                ELSE IF value < 0 THEN [v EXCEPT !.ret = -EINVAL]
                ELSE ungated_resize_buffer(v, value, allocOk)
         [] cmd = CMD_GET_CAPACITY ->
                IF fault THEN [v EXCEPT !.ret = -EFAULT] ELSE [v EXCEPT !.out = <<u.capacity>>]
         [] cmd = CMD_GET_USAGE ->
                IF fault THEN [v EXCEPT !.ret = -EFAULT] ELSE [v EXCEPT !.out = <<u.position>>]
         [] cmd = CMD_CLEAR_BUFFER -> [v EXCEPT !.position = 0]
         [] OTHER -> [v EXCEPT !.ret = -ENOTTY]

\* fault: copy_to_user fails
ungated_buffer_read(u, count, fault) ==
    LET v == [u EXCEPT !.ret = 0, !.out = <<>>]
    IN IF count < SizeofInt THEN [v EXCEPT !.ret = -EINVAL]
       ELSE IF u.position = 0 THEN [v EXCEPT !.stats.underflow_count = @ + 1]
       ELSE IF fault THEN [v EXCEPT !.ret = -EFAULT]
       ELSE [v EXCEPT !.ret = SizeofInt,
                      !.out = <<u.elements[u.position - 1]>>,
                      !.position = u.position - 1,
                      !.stats.pop_count = @ + 1]

\* fault: copy_from_user fails
ungated_buffer_write(u, count, value, fault, allocOk) ==
    LET v == [u EXCEPT !.ret = 0, !.out = <<>>]
        full == [v EXCEPT !.ret = -ENOSPC, !.stats.overflow_count = @ + 1]
        grown == IF u.position >= u.capacity /\ enable_auto_resize # 0
                 THEN ungated_resize_buffer(v, max(u.capacity * 2, MinGrowCapacity), allocOk)
                 ELSE v
    IN IF count # SizeofInt THEN [v EXCEPT !.ret = -EINVAL]
       ELSE IF fault THEN [v EXCEPT !.ret = -EFAULT]
       ELSE IF u.position >= u.capacity /\ enable_auto_resize = 0 THEN full
       ELSE IF grown.ret < 0 THEN full
       ELSE [grown EXCEPT !.ret = SizeofInt,
                          !.elements[grown.position] = value,
                          !.position = grown.position + 1,
                          !.stats.push_count = @ + 1]

InitUngated ==
    /\ enable_auto_resize \in {0, 1}
    /\ usb_key_present = 1
    /\ device_registered = 1
    /\ usb_pc = "idle"
    /\ usb_ev = NoEv
    /\ \E default_capacity \in 0 .. MaxCap : initialize_buffer(default_capacity)
    /\ InitCallers
    /\ trace = [elements |-> elements, capacity |-> capacity, position |-> position,
                stats |-> stats, ret |-> 0, out |-> <<>>, count |-> 0, fault |-> FALSE]

\* a call enters the gated driver; the ungated driver has answered at once
\* when the gated one has, and otherwise keeps the byte count and the
\* outcome of copy_from_user for its own critical section
UngatedStart ==
    \E p \in Procs, count \in Sizes, fault \in BOOLEAN :
        LET pending == [trace EXCEPT !.count = count, !.fault = fault] IN
        \/ \E value \in Values :
              /\ WriteBudget
              /\ buffer_write_start(p, count, value, fault)
              /\ trace' = IF pc'[p] = "done"
                          THEN ungated_buffer_write(pending, count, value, fault, TRUE)
                          ELSE pending
        \/ /\ ReadBudget
           /\ fault = FALSE
           /\ buffer_read_start(p, count)
           /\ trace' = IF pc'[p] = "done"
                       THEN ungated_buffer_read(pending, count, FALSE)
                       ELSE pending
        \/ \E cmd \in Cmds, arg \in SetArgs :
              /\ count = 0 /\ fault = FALSE
              /\ cmd # INT_STACK_SET_MAX_SIZE => arg = 0
              /\ buffer_ioctl_start(p, cmd, arg)
              /\ trace' = pending

\* the critical section of the gated driver, and the ungated driver's call
UngatedBody ==
    \E p \in Procs, fault \in BOOLEAN, allocOk \in BOOLEAN :
        \/ /\ fault = FALSE
           /\ buffer_write_body(p, allocOk)
           /\ trace' = ungated_buffer_write(trace, trace.count, req[p].arg, trace.fault, allocOk)
        \/ /\ allocOk = TRUE
           /\ buffer_read_body(p, fault)
           /\ trace' = ungated_buffer_read(trace, trace.count, fault)
        \/ /\ buffer_ioctl_body(p, fault, allocOk)
           /\ trace' = ungated_buffer_ioctl(trace, req[p].cmd, req[p].arg, fault, allocOk)

NextUngated ==
    \/ UngatedStart
    \/ Lock
    \/ UngatedBody
    \/ CallReturn

SpecUngated == InitUngated /\ [][NextUngated]_vars

(***************************************************************************)
(* The client kernel_stack.  Each caller runs the program once, caller 2   *)
(* after caller 1 has exited, with one command and one argument, while the *)
(* key is unplugged and plugged in at any moment.  A run opens the device, *)
(* issues the requests of its command and exits; trace records, per        *)
(* caller, the command, the requests issued, the lines printed and the     *)
(* exit status together with the result that decided it.  The position of  *)
(* a run is its last record.  On exit the handle is closed, which runs     *)
(* buffer_release and changes nothing.                                     *)
(*                                                                         *)
(* A command-line number is a long of two 32-bit words, hi and lo, as      *)
(* strtol returns it on a 64-bit little-endian build; the driver's         *)
(* copy_from_user(&value, arg, sizeof(int)) reads the low word.            *)
(***************************************************************************)
Long(hi, lo) == [given |-> TRUE, numeric |-> TRUE, hi |-> hi, lo |-> lo]
NotANumber == [given |-> TRUE, numeric |-> FALSE, hi |-> 0, lo |-> 0]
\* the command line ends after the command (argc = 2)
NoArg == [given |-> FALSE, numeric |-> FALSE, hi |-> 0, lo |-> 0]
\* "x", 0, 1, 4294967295 and 4294967296
CliArgs == {NotANumber, Long(0, 0), Long(0, 1), Long(0, -1), Long(1, 0)}
Positive(a) == a.hi > 0 \/ (a.hi = 0 /\ a.lo # 0)
LowWord(a) == a.lo
Commands == {"set-size", "push", "pop", "unwind"}

CliEntry(p, op, val) == [who |-> p, op |-> op, val |-> val]
Exit(p, status, result) == CliEntry(p, "exit", [status |-> status, result |-> result])
Mine(p) == SelectSeq(trace, LAMBDA e : e.who = p)
At(p) == IF Mine(p) = <<>> THEN "none" ELSE Mine(p)[Len(Mine(p))].op
Command(p) == Mine(p)[1]
Printed(p) == SelectSeq(Mine(p), LAMBDA e : e.op = "print")
Requests(p) == SelectSeq(Mine(p), LAMBDA e : e.op = "request")

\* the status main returns when open fails with result r
main_open_status(r) == IF r = -ENODEV THEN EXIT_USB_ERROR ELSE EXIT_IO_ERROR

\* the status of set-size when ioctl returns r
configure_stack_size(r) ==
    IF r = 0 THEN EXIT_SUCCESS
    ELSE IF r = -ENODEV THEN EXIT_USB_ERROR
    ELSE EXIT_CONFIG_ERROR

\* the status of push when write returns r
add_value_to_stack(r) ==
    IF r = SizeofInt THEN EXIT_SUCCESS
    ELSE IF r = -ENODEV THEN EXIT_USB_ERROR
    ELSE EXIT_IO_ERROR

\* what pop prints and returns when read returns r and the value copied
retrieve_value_from_stack(p, r, copied) ==
    IF r = 0 THEN <<CliEntry(p, "empty", 0), Exit(p, EXIT_SUCCESS, r)>>
    ELSE IF r = SizeofInt THEN <<CliEntry(p, "print", copied[1]), Exit(p, EXIT_SUCCESS, r)>>
    ELSE IF r = -ENODEV THEN <<Exit(p, EXIT_USB_ERROR, r)>>
    ELSE <<Exit(p, EXIT_IO_ERROR, r)>>

\* unwind leaving its loop after the first value
empty_entire_stack_one_turn(p, r, copied, count) ==
    IF r = 0
    THEN IF count = 0
         THEN <<CliEntry(p, "empty", 0), Exit(p, EXIT_SUCCESS, r)>>
         ELSE <<Exit(p, EXIT_SUCCESS, r)>>
    ELSE IF r # SizeofInt
    THEN IF r = -ENODEV THEN <<Exit(p, EXIT_USB_ERROR, r)>> ELSE <<Exit(p, EXIT_IO_ERROR, r)>>
    ELSE <<CliEntry(p, "print", copied[1]), Exit(p, EXIT_SUCCESS, r)>>

\* one turn of the loop of unwind, count values having been printed
empty_entire_stack(p, r, copied, count) ==
    IF r = 0
    THEN IF count = 0
         THEN <<CliEntry(p, "empty", 0), Exit(p, EXIT_SUCCESS, r)>>
         ELSE <<Exit(p, EXIT_SUCCESS, r)>>
    ELSE IF r # SizeofInt
    THEN IF r = -ENODEV THEN <<Exit(p, EXIT_USB_ERROR, r)>> ELSE <<Exit(p, EXIT_IO_ERROR, r)>>
    ELSE <<CliEntry(p, "print", copied[1])>>

\* the key is plugged in and earlier pushes have left elements in the store
InitStored(largest) ==
    /\ enable_auto_resize \in {0, 1}
    /\ usb_key_present = 1
    /\ device_registered = 1
    /\ usb_pc = "idle"
    /\ usb_ev = NoEv
    /\ capacity \in 0 .. largest
    /\ position \in 0 .. capacity
    /\ elements = [i \in 0 .. (capacity - 1) |-> IF i < position THEN Filled(i) ELSE 0]
    /\ stats = [init_stats EXCEPT !.push_count = position]
    /\ op_lock = 0
    /\ InitCallers
    /\ trace = <<>>

InitClient == InitStored(MaxConcCap)

\* main up to the return of open; without the device node open fails in the
\* VFS and buffer_open is not called
client_main(p, cmd, arg) ==
    /\ At(p) = "none"
    /\ \A q \in Callers : q < p => At(q) = "exit"
    /\ cmd \in {"pop", "unwind"} => arg = NoArg
    /\ IF device_registered = 0
       THEN /\ pc[p] = "idle"
            /\ Return(p, [NoReq EXCEPT !.fn = "open"], -ENOENT, <<>>)
            /\ UNCHANGED <<cfg, gate, usb, store, stats, op_lock>>
       ELSE buffer_open(p)
    /\ trace' = Append(trace, CliEntry(p, cmd, arg))

client_opened(p) ==
    /\ At(p) \in Commands
    /\ pc[p] = "done"
    /\ call_return(p)
    /\ trace' = Append(trace, IF ret[p] < 0
                              THEN Exit(p, main_open_status(ret[p]), ret[p])
                              ELSE CliEntry(p, "opened", 0))

\* the request of the command: a missing argument (status EXIT_FAILURE) or an
\* argument that does not parse ends the run before any request
client_request(p) ==
    LET cmd == Command(p).op
        arg == Command(p).val
    IN /\ At(p) = "opened" \/ (At(p) = "print" /\ cmd = "unwind")
       /\ pc[p] = "idle"
       /\ CASE cmd = "set-size" ->
                 IF ~arg.given \/ ~arg.numeric \/ ~Positive(arg)
                 THEN /\ trace' = Append(trace, Exit(p, IF arg.given THEN EXIT_FORMAT_ERROR
                                                        ELSE EXIT_FAILURE, 0))
                      /\ UNCHANGED <<cfg, gate, usb, store, stats, op_lock, callers>>
                 ELSE /\ buffer_ioctl_start(p, INT_STACK_SET_MAX_SIZE, LowWord(arg))
                      /\ trace' = Append(trace, CliEntry(p, "request", 0))
            [] cmd = "push" ->
                 IF ~arg.given \/ ~arg.numeric
                 THEN /\ trace' = Append(trace, Exit(p, IF arg.given THEN EXIT_FORMAT_ERROR
                                                        ELSE EXIT_FAILURE, 0))
                      /\ UNCHANGED <<cfg, gate, usb, store, stats, op_lock, callers>>
                 ELSE /\ buffer_write_start(p, SizeofInt, LowWord(arg), FALSE)
                      /\ trace' = Append(trace, CliEntry(p, "request", 0))
            [] OTHER ->
                 /\ buffer_read_start(p, SizeofInt)
                 /\ trace' = Append(trace, CliEntry(p, "request", 0))

\* the client takes the result of its request
client_result(p) ==
    LET cmd == Command(p).op IN
    /\ At(p) = "request"
    /\ pc[p] = "done"
    /\ call_return(p)
    /\ trace' = trace \o
         (CASE cmd = "set-size" -> <<Exit(p, configure_stack_size(ret[p]), ret[p])>>
            [] cmd = "push" -> <<Exit(p, add_value_to_stack(ret[p]), ret[p])>>
            [] cmd = "pop" -> retrieve_value_from_stack(p, ret[p], out[p])
            [] OTHER -> empty_entire_stack(p, ret[p], out[p], Len(Printed(p))))

ClientMain == \E p \in Callers, cmd \in Commands, arg \in CliArgs \cup {NoArg} : client_main(p, cmd, arg)
ClientOpened == \E p \in Callers : client_opened(p)
ClientRequest == \E p \in Callers : client_request(p)
ClientResult == \E p \in Callers : client_result(p)

NextClient ==
    \/ ClientMain
    \/ ClientOpened
    \/ ClientRequest
    \/ ConcLock
    \/ ConcWriteBody
    \/ ConcReadBody
    \/ ConcIoctlBody
    \/ ClientResult
    \/ ConcProbe
    \/ FillRegister
    \/ ConcDisconnect
    \/ Unregister
    \/ UsbReturn

SpecClient == InitClient /\ [][NextClient]_vars

(***************************************************************************)
(* Unwind: one run of "kernel_stack unwind" on a store that holds some     *)
(* elements, with no other caller, while the key is unplugged and plugged  *)
(* in at any moment.                                                       *)
(***************************************************************************)
InitUnwind == InitStored(MaxLifoCap) /\ enable_auto_resize = 0

UnwindMain == \E p \in Procs : client_main(p, "unwind", NoArg)
UnwindOpened == \E p \in Procs : client_opened(p)
UnwindRequest == \E p \in Procs : client_request(p)
UnwindReadBody == \E p \in Procs : buffer_read_body(p, FALSE) /\ UNCHANGED log
UnwindResult == \E p \in Procs : client_result(p)

NextUnwind ==
    \/ UnwindMain
    \/ UnwindOpened
    \/ UnwindRequest
    \/ Lock
    \/ UnwindReadBody
    \/ UnwindResult
    \/ ConcProbe
    \/ FillRegister
    \/ ConcDisconnect
    \/ Unregister
    \/ UsbReturn

SpecUnwind == InitUnwind /\ [][NextUnwind]_vars

(***************************************************************************)
(* Steps of a call, as seen in a transition.                               *)
(***************************************************************************)
StartStep(p) == pc[p] = "idle" /\ pc'[p] # "idle"
WriteBodyStep(p) == pc[p] = "cs" /\ req[p].fn = "write" /\ pc'[p] = "done"
ReadBodyStep(p) == pc[p] = "cs" /\ req[p].fn = "read" /\ pc'[p] = "done"
IoctlBodyStep(p, cmd) ==
    pc[p] = "cs" /\ req[p].fn = "ioctl" /\ req[p].cmd = cmd /\ pc'[p] = "done"
UsbStep == usb_pc' # usb_pc

\* the occupied slots, bottom first
Contents == [i \in 0 .. (position - 1) |-> elements[i]]

\* C2: in every reachable state 0 <= position <= capacity, whatever the
\* interleaving of calls and hot-plug events, with growth on or off and with
\* allocations failing at any point.
C2_CountWithinCapacity ==
    /\ 0 <= position
    /\ position <= capacity
    /\ 0 <= capacity
    /\ DOMAIN elements = 0 .. (capacity - 1)

\* two callers have pushed at the same time onto a store with one free slot:
\* one push was accepted, the other rejected, and the store is full
C2_Witness ==
    /\ capacity = 1
    /\ position = capacity
    /\ \A p \in Callers : pc[p] = "done" /\ req[p].fn = "write"
    /\ ret[1] = SizeofInt
    /\ ret[2] = -ENOSPC
    /\ elements[0] = 1

\* C3: a successful set-capacity(k), k > 0, leaves capacity = k and
\* position = min(position, k) and keeps the first min(position, k) elements
\* at their indices: shrinking drops the newest, growing keeps all.
C3_ResizePreservesIndices ==
    [][\A p \in Callers :
        (/\ IoctlBodyStep(p, INT_STACK_SET_MAX_SIZE)
         /\ req[p].arg > 0
         /\ ret'[p] = 0)
        => /\ capacity' = req[p].arg
           /\ position' = min(position, req[p].arg)
           /\ DOMAIN elements' = 0 .. (req[p].arg - 1)
           /\ \A i \in 0 .. (min(position, req[p].arg) - 1) : elements'[i] = elements[i]
           /\ \A i \in min(position, req[p].arg) .. (req[p].arg - 1) : elements'[i] = 0]_vars

\* set-capacity(1) has returned 0 on a store that held two elements: the older
\* one is kept, the newer one is gone
C3_Witness ==
    \E p \in Callers :
        /\ pc[p] = "done"
        /\ req[p] = [fn |-> "ioctl", cmd |-> INT_STACK_SET_MAX_SIZE, arg |-> 1]
        /\ ret[p] = 0
        /\ capacity = 1
        /\ position = 1
        /\ elements[0] \in Values
        /\ stats.push_count = 2
        /\ stats.pop_count = 0

\* C4: with automatic growth disabled a push on a full store fails with
\* ENOSPC, leaves the store unchanged, increments overflow_count by exactly 1
\* and no other counter; the critical section is never blocked.
C4_OverflowRejected ==
    /\ [](\A p \in Callers : (pc[p] = "cs" /\ req[p].fn = "write")
             => ENABLED (\E allocOk \in BOOLEAN : buffer_write_body(p, allocOk)))
    /\ [][\A p \in Callers :
            (/\ WriteBodyStep(p)
             /\ enable_auto_resize = 0
             /\ position = capacity)
            => /\ ret'[p] = -ENOSPC
               /\ UNCHANGED store
               /\ position' = capacity'
               /\ stats' = [stats EXCEPT !.overflow_count = @ + 1]]_vars

\* a push has just been rejected on a full, non-empty store, growth disabled
C4_Witness ==
    \E p \in Callers :
        /\ pc[p] = "done"
        /\ req[p].fn = "write"
        /\ ret[p] = -ENOSPC
        /\ enable_auto_resize = 0
        /\ capacity > 0
        /\ position = capacity
        /\ elements[position - 1] \in Values
        /\ stats.overflow_count = 1
        /\ stats.push_count = capacity

\* C6: a pop on an empty store returns 0 bytes at once, leaves the store
\* unchanged, increments underflow_count by exactly 1 and no other counter.
C6_UnderflowRejected ==
    /\ [](\A p \in Callers : (pc[p] = "cs" /\ req[p].fn = "read")
             => ENABLED (\E fault \in BOOLEAN : buffer_read_body(p, fault)))
    /\ [][\A p \in Callers :
            (ReadBodyStep(p) /\ position = 0)
            => /\ ret'[p] = 0
               /\ out'[p] = <<>>
               /\ UNCHANGED store
               /\ position' = 0
               /\ stats' = [stats EXCEPT !.underflow_count = @ + 1]]_vars

\* a pop has just returned "no data" on a store with capacity but no element
C6_Witness ==
    \E p \in Callers :
        /\ pc[p] = "done"
        /\ req[p].fn = "read"
        /\ ret[p] = 0
        /\ out[p] = <<>>
        /\ position = 0
        /\ capacity > 0
        /\ stats.underflow_count = 1
        /\ stats.pop_count = 0

\* C7: while usb_key_present is 0 every open, write, read and ioctl that
\* starts returns -ENODEV whatever its arguments, without taking the lock and
\* without changing the store or the counters.
C7_AbsentRejectsEverything ==
    [][\A p \in Callers :
        (StartStep(p) /\ usb_key_present = 0 /\ req'[p].fn # "release")
        => /\ pc'[p] = "done"
           /\ ret'[p] = -ENODEV
           /\ out'[p] = <<>>
           /\ UNCHANGED <<store, stats, op_lock>>]_vars

\* a set-capacity with a negative argument has been rejected with -ENODEV
\* while the store holds an element
C7_Witness ==
    \E p \in Callers :
        /\ pc[p] = "done"
        /\ req[p] = [fn |-> "ioctl", cmd |-> INT_STACK_SET_MAX_SIZE, arg |-> -1]
        /\ ret[p] = -ENODEV
        /\ usb_key_present = 0
        /\ position > 0

\* C9: an attach or detach event whose identity is not the configured one
\* changes neither the gate nor the store nor the counters, and no handler
\* step is pending after it.
C9_ForeignIdentityIgnored ==
    [][(/\ usb_pc = "idle"
        /\ usb_pc' # "idle"
        /\ usb_ev'.vid # usb_vid \/ usb_ev'.pid # usb_pid)
       => /\ UNCHANGED <<gate, store, stats, op_lock, callers>>
          /\ usb_pc' = "returned"
          /\ usb_ev'.ret = (IF usb_ev'.fn = "pen_probe" THEN -ENODEV ELSE 0)]_vars

\* a foreign detach event has been ignored while the gate is Present and the
\* store holds an element
C9_Witness ==
    /\ usb_pc = "returned"
    /\ usb_ev = [fn |-> "pen_disconnect", vid |-> usb_vid, pid |-> OtherPid, ret |-> 0]
    /\ usb_key_present = 1
    /\ device_registered = 1
    /\ position > 0

\* C10: when kzalloc fails in set-capacity(k), k > 0, the call returns
\* -ENOMEM and the store and the counters are as before the call.
C10_FailedResizeChangesNothing ==
    [][\A p \in Callers :
        (/\ IoctlBodyStep(p, INT_STACK_SET_MAX_SIZE)
         /\ req[p].arg > 0
         /\ buffer_ioctl_body(p, FALSE, FALSE))
        => /\ ret'[p] = -ENOMEM
           /\ UNCHANGED <<store, stats>>]_vars

\* set-capacity(1) has failed with -ENOMEM on a store holding two elements
C10_Witness ==
    \E p \in Callers :
        /\ pc[p] = "done"
        /\ req[p] = [fn |-> "ioctl", cmd |-> INT_STACK_SET_MAX_SIZE, arg |-> 1]
        /\ ret[p] = -ENOMEM
        /\ capacity = 2
        /\ position = 2

\* C1: with the key present and growth disabled, n <= capacity pushes onto
\* the empty store followed by pops return the pushed values in reverse
\* order, and the pop after the n-th returns "no data".
C1_LIFO ==
    /\ Len(Pushed) <= capacity
    /\ Len(Popped) <= Len(Pushed)
    /\ Popped = SubSeq(Reverse(Pushed), 1, Len(Popped))
    /\ Drained => /\ Len(Popped) = Len(Pushed)
                  /\ Ops(trace)[Len(trace)] = "empty"

\* three values were pushed and popped again, and the fourth pop found no data
C1_Witness ==
    /\ Pushed = <<1, 1, 2>>
    /\ Popped = <<2, 1, 1>>
    /\ Drained
    /\ position = 0
    /\ capacity = 3
    /\ stats = [push_count |-> 3, pop_count |-> 3, overflow_count |-> 0, underflow_count |-> 1]

\* C5: with automatic growth enabled a push on a full store whose allocation
\* succeeds is accepted: capacity becomes max(2 * capacity, 8), the elements
\* stay at their indices, the value is stored at index position, position
\* and push_count grow by 1 and overflow_count is unchanged.
C5_GrowthOnFullPush ==
    [][\A p \in Callers :
        (WriteBodyStep(p) /\ enable_auto_resize # 0 /\ position = capacity)
        => /\ buffer_write_body(p, TRUE) => ret'[p] = SizeofInt
           /\ ret'[p] = SizeofInt
              => /\ capacity' = max(2 * capacity, 8)
                 /\ DOMAIN elements' = 0 .. (capacity' - 1)
                 /\ \A i \in 0 .. (position - 1) : elements'[i] = elements[i]
                 /\ elements'[position] = req[p].arg
                 /\ \A i \in (position + 1) .. (capacity' - 1) : elements'[i] = 0
                 /\ position' = position + 1
                 /\ stats' = [stats EXCEPT !.push_count = @ + 1]
                 /\ capacity' >= 8]_vars

\* a push on a full store of capacity 5 has been accepted and the capacity is 10
C5_Witness ==
    \E p \in Callers :
        /\ pc[p] = "done"
        /\ req[p].fn = "write"
        /\ ret[p] = SizeofInt
        /\ capacity = 10
        /\ position = 6
        /\ elements[5] = req[p].arg
        /\ stats.push_count = 6
        /\ stats.overflow_count = 0

\* C8: the attach and detach handlers change neither the store nor the
\* counters, so that values pushed before the key is unplugged are popped in
\* LIFO order after it is plugged in again.
C8_HotplugKeepsStore ==
    /\ [][UsbStep => UNCHANGED <<store, stats, op_lock>>]_vars
    /\ [](/\ Len(Popped) <= Len(Pushed)
          /\ Popped = SubSeq(Reverse(Pushed), 1, Len(Popped))
          /\ Drained => Len(Popped) = Len(Pushed))

\* two values were pushed, the key was unplugged and plugged in again, and the
\* values were popped in reverse order
C8_Witness ==
    /\ Ops(trace) = <<"attach", "push", "push", "detach", "attach", "pop", "pop", "empty">>
    /\ Pushed = <<1, 2>>
    /\ Popped = <<2, 1>>
    /\ usb_key_present = 1
    /\ device_registered = 1

\* the i-th recorded call is a set-capacity(0)
SetZeroAt(i) ==
    /\ trace[i].fn = "ioctl"
    /\ trace[i].cmd = INT_STACK_SET_MAX_SIZE
    /\ trace[i].arg = 0

\* what C11 says of the set-capacity(0) itself and of the get-usage, the
\* get-capacity and the pop that take the lock next
ZeroedStore ==
    /\ \A i \in 1 .. Len(trace) : SetZeroAt(i) => trace[i].ret = 0
    /\ (Len(trace) > 0 /\ SetZeroAt(Len(trace)))
       => capacity = 0 /\ position = 0 /\ elements = NULL
    /\ \A i \in 1 .. (Len(trace) - 1) :
          SetZeroAt(i)
          => /\ (trace[i + 1].fn = "ioctl" /\ trace[i + 1].cmd = CMD_GET_USAGE)
                => trace[i + 1].ret = 0 /\ trace[i + 1].out = <<0>>
             /\ (trace[i + 1].fn = "ioctl" /\ trace[i + 1].cmd = CMD_GET_CAPACITY)
                => trace[i + 1].ret = 0 /\ trace[i + 1].out = <<0>>
             /\ trace[i + 1].fn = "read"
                => trace[i + 1].ret = 0 /\ trace[i + 1].out = <<>>

\* C11 as stated: set-capacity(0) succeeds whatever the store holds, get-usage
\* and get-capacity then return 0, the array is released, the next pop
\* returns "no data" and the next push fails.
C11_Original ==
    /\ ZeroedStore
    /\ \A i \in 1 .. (Len(trace) - 1) :
          (SetZeroAt(i) /\ trace[i + 1].fn = "write") => trace[i + 1].ret < 0

\* C11, with growth: set-capacity(0) succeeds whatever the store holds,
\* get-usage and get-capacity then return 0, the array is released and the
\* next pop returns "no data"; the next push fails with ENOSPC when automatic
\* growth is disabled or its allocation fails, and otherwise grows the
\* capacity to 8 and is accepted.
C11_ZeroCapacity ==
    /\ ZeroedStore
    /\ \A i \in 1 .. (Len(trace) - 1) :
          (SetZeroAt(i) /\ trace[i + 1].fn = "write")
          => IF enable_auto_resize = 0 \/ ~trace[i + 1].alloc
             THEN trace[i + 1].ret = -ENOSPC
             ELSE /\ trace[i + 1].ret = SizeofInt
                  /\ i + 1 = Len(trace) => capacity = MinGrowCapacity /\ position = 1

\* set-capacity(0) has emptied a store that held an element and, growth being
\* disabled, the push that followed was rejected
C11_Witness ==
    /\ Len(trace) = 2
    /\ SetZeroAt(1)
    /\ trace[1].ret = 0
    /\ trace[2].fn = "write"
    /\ trace[2].ret = -ENOSPC
    /\ enable_auto_resize = 0
    /\ stats.push_count = 1
    /\ stats.overflow_count = 1
    /\ capacity = 0

\* C12: a set-capacity whose argument is read as a negative number, issued
\* while the key is present, returns -EINVAL whether or not memory could be
\* allocated, leaves capacity, position, elements and the counters unchanged
\* and releases the lock it held.
C12_NegativeCapacityRejected ==
    [][\A p \in Callers :
        (/\ IoctlBodyStep(p, INT_STACK_SET_MAX_SIZE)
         /\ req[p].arg < 0
         /\ \E allocOk \in BOOLEAN : buffer_ioctl_body(p, FALSE, allocOk))
        => /\ ret'[p] = -EINVAL
           /\ UNCHANGED <<store, stats>>
           /\ op_lock = p
           /\ op_lock' = 0]_vars

\* set-capacity(-1) has been rejected with -EINVAL on a store holding an
\* element, and the lock is free
C12_Witness ==
    \E p \in Callers :
        /\ pc[p] = "done"
        /\ req[p] = [fn |-> "ioctl", cmd |-> INT_STACK_SET_MAX_SIZE, arg |-> -1]
        /\ ret[p] = -EINVAL
        /\ position > 0
        /\ op_lock = 0

\* C13: a control call whose command is none of set-capacity, get-capacity,
\* get-usage and clear, issued while the key is present, returns -ENOTTY and
\* leaves capacity, position, elements and the counters unchanged.
C13_UnknownCommandRejected ==
    [][\A p \in Callers :
        (/\ pc[p] = "cs"
         /\ pc'[p] = "done"
         /\ req[p].fn = "ioctl"
         /\ req[p].cmd \notin {INT_STACK_SET_MAX_SIZE, CMD_GET_CAPACITY,
                                CMD_GET_USAGE, CMD_CLEAR_BUFFER})
        => /\ ret'[p] = -ENOTTY
           /\ out'[p] = <<>>
           /\ UNCHANGED <<store, stats>>
           /\ op_lock' = 0]_vars

\* an unknown command has been rejected with -ENOTTY on a store holding an
\* element
C13_Witness ==
    \E p \in Callers :
        /\ pc[p] = "done"
        /\ req[p] = [fn |-> "ioctl", cmd |-> CMD_UNKNOWN, arg |-> 0]
        /\ ret[p] = -ENOTTY
        /\ position > 0
        /\ capacity > 0

\* the callers inside a critical section
InCS == {p \in Callers : pc[p] = "cs"}

\* C14: at most one caller is inside a critical section, and it is the owner
\* of op_lock; elements, capacity and position change, and are copied out to
\* a caller, only in a step of the caller that holds op_lock, so that no
\* resize replaces or frees the array under another call.
C14_MutualExclusion ==
    /\ [](Cardinality(InCS) <= 1)
    /\ [](\A p \in Callers : pc[p] = "cs" <=> op_lock = p)
    /\ [][store' # store
            => \E p \in Callers : op_lock = p /\ pc[p] = "cs" /\ pc'[p] = "done"]_vars
    /\ [][\A p \in Callers :
            (out'[p] # out[p] /\ out'[p] # <<>>) => (op_lock = p /\ pc[p] = "cs")]_vars
    /\ [][\A p \in Callers : pc[p] = "cs" => (pc'[p] = "cs" => UNCHANGED store)]_vars

\* a pop waits for the lock while a set-capacity that will drop an element is
\* inside its critical section
C14_Witness ==
    /\ pc[1] = "cs"
    /\ op_lock = 1
    /\ req[1] = [fn |-> "ioctl", cmd |-> INT_STACK_SET_MAX_SIZE, arg |-> 0]
    /\ pc[2] = "wait"
    /\ req[2].fn = "read"
    /\ position > 0

(***************************************************************************)
(* The sequential stack of C15: push appends, pop removes the last         *)
(* element, set-capacity(k) keeps the first min(count, k) elements, clear  *)
(* empties.  SeqApply(s, e) is the stack after the call e, with the result *)
(* and the output the call must have.                                      *)
(***************************************************************************)
SeqStack == [stack |-> [i \in 1 .. position |-> elements[i - 1]],
             cap |-> capacity,
             stats |-> stats]

SeqResult(s, result, copied) == [state |-> s, ret |-> result, out |-> copied]

SeqPush(s, v, allocOk) ==
    LET accepted(c) ==
            SeqResult([stack |-> Append(s.stack, v), cap |-> c,
                       stats |-> [s.stats EXCEPT !.push_count = @ + 1]],
                      SizeofInt, <<>>)
    IN IF Len(s.stack) < s.cap THEN accepted(s.cap)
       ELSE IF enable_auto_resize # 0 /\ allocOk
       THEN accepted(IF 2 * s.cap > 8 THEN 2 * s.cap ELSE 8)
       ELSE SeqResult([s EXCEPT !.stats.overflow_count = @ + 1], -ENOSPC, <<>>)

SeqPop(s) ==
    IF Len(s.stack) = 0
    THEN SeqResult([s EXCEPT !.stats.underflow_count = @ + 1], 0, <<>>)
    ELSE SeqResult([s EXCEPT !.stack = SubSeq(s.stack, 1, Len(s.stack) - 1),
                             !.stats.pop_count = @ + 1],
                   SizeofInt, <<s.stack[Len(s.stack)]>>)

SeqControl(s, cmd, k, allocOk) ==
    CASE cmd = INT_STACK_SET_MAX_SIZE ->
            IF k < 0 THEN SeqResult(s, -EINVAL, <<>>)
            ELSE IF k = 0 THEN SeqResult([s EXCEPT !.stack = <<>>, !.cap = 0], 0, <<>>)
            ELSE IF ~allocOk THEN SeqResult(s, -ENOMEM, <<>>)
            ELSE SeqResult([s EXCEPT !.stack = SubSeq(s.stack, 1,
                                                     IF Len(s.stack) < k THEN Len(s.stack) ELSE k),
                                     !.cap = k], 0, <<>>)
      [] cmd = CMD_GET_CAPACITY -> SeqResult(s, 0, <<s.cap>>)
      [] cmd = CMD_GET_USAGE -> SeqResult(s, 0, <<Len(s.stack)>>)
      [] cmd = CMD_CLEAR_BUFFER -> SeqResult([s EXCEPT !.stack = <<>>], 0, <<>>)
      [] OTHER -> SeqResult(s, -ENOTTY, <<>>)

SeqApply(s, e) ==
    CASE e.fn = "write" -> SeqPush(s, e.arg, e.alloc)
      [] e.fn = "read" -> SeqPop(s)
      [] e.fn = "ioctl" -> SeqControl(s, e.cmd, e.arg, e.alloc)

\* the pushes recorded so far that were accepted
Accepted == Len(SelectSeq(trace, LAMBDA e : e.fn = "write" /\ e.ret = SizeofInt))
OnlyPushes == \A i \in 1 .. Len(trace) : trace[i].fn = "write"

\* C15: each call takes effect in one step made while it holds op_lock,
\* between its start and its return; that step changes the stack, the
\* capacity and the counters, and gives the caller the result and the output,
\* exactly as the sequential stack does for the same call, and no other step
\* changes them.  The calls therefore behave as if run one at a time in the
\* order in which they took the lock.  With growth disabled, of the pushes
\* that race for the free slots exactly as many succeed as there were slots.
C15_Linearizable ==
    /\ [][\A p \in Callers :
            (pc[p] = "cs" /\ pc'[p] = "done")
            => LET e == trace'[Len(trace')]
                   r == SeqApply(SeqStack, e)
               IN /\ Len(trace') = Len(trace) + 1
                  /\ e.fn = req[p].fn /\ e.cmd = req[p].cmd /\ e.arg = req[p].arg
                  /\ ret'[p] = r.ret
                  /\ out'[p] = r.out
                  /\ e.ret = r.ret
                  /\ e.out = r.out
                  /\ SeqStack' = r.state]_vars
    /\ [][(\A p \in Callers : ~(pc[p] = "cs" /\ pc'[p] = "done"))
            => (SeqStack' = SeqStack /\ trace' = trace)]_vars
    /\ []((enable_auto_resize = 0 /\ OnlyPushes)
            => LET free == capacity - (position - Accepted)
               IN Accepted = (IF Len(trace) < free THEN Len(trace) ELSE free))

\* both callers pushed onto a store with one free slot, growth disabled: the
\* caller that took the lock first was accepted, the other was rejected
C15_Witness ==
    /\ enable_auto_resize = 0
    /\ Len(trace) = 2
    /\ trace[1] = Call("write", 0, 2, TRUE, SizeofInt, <<>>)
    /\ trace[2].fn = "write" /\ trace[2].arg = 1 /\ trace[2].ret = -ENOSPC
    /\ pc[1] = "done" /\ pc[2] = "done"
    /\ capacity = 1
    /\ position = 1
    /\ elements[0] = 2

\* the i-th recorded call is a set-capacity(k)
SetCapacityAt(i, k) ==
    /\ trace[i].fn = "ioctl"
    /\ trace[i].cmd = INT_STACK_SET_MAX_SIZE
    /\ trace[i].arg = k

\* C16: a set-capacity(k), k >= 0, issued while the key is present returns 0
\* unless k > 0 and its allocation fails, when it returns -ENOMEM, however
\* many set-capacity calls came before; it never returns -EBUSY; and a
\* set-capacity(k) that succeeds right after a successful set-capacity(k)
\* leaves capacity, position and elements as the first one left them.
C16_SetCapacityReappliable ==
    /\ [](\A i \in 1 .. Len(trace) :
            (trace[i].fn = "ioctl" /\ trace[i].cmd = INT_STACK_SET_MAX_SIZE /\ trace[i].arg >= 0)
            => /\ trace[i].ret = (IF trace[i].arg > 0 /\ ~trace[i].alloc THEN -ENOMEM ELSE 0)
               /\ trace[i].ret # -EBUSY)
    /\ [][\A p \in Callers :
            (/\ IoctlBodyStep(p, INT_STACK_SET_MAX_SIZE)
             /\ Len(trace) > 0
             /\ SetCapacityAt(Len(trace), req[p].arg)
             /\ trace[Len(trace)].ret = 0
             /\ ret'[p] = 0)
            => UNCHANGED store]_vars
    /\ [][\A p \in Callers :
            (IoctlBodyStep(p, INT_STACK_SET_MAX_SIZE) /\ ret'[p] = 0)
            => LET again == resize_buffer(req[p].arg, TRUE)'
               IN /\ again.ret = 0
                  /\ again.elements = elements'
                  /\ again.capacity = capacity'
                  /\ again.position = position']_vars

\* set-capacity(1) has succeeded twice in succession on a store that holds an
\* element
C16_Witness ==
    /\ Len(trace) = 2
    /\ SetCapacityAt(1, 1) /\ trace[1].ret = 0
    /\ SetCapacityAt(2, 1) /\ trace[2].ret = 0
    /\ capacity = 1
    /\ position = 1
    /\ elements[0] = Filled(0)

\* the call that held the lock last was an accepted push
LastWasPush ==
    /\ Len(trace) > 0
    /\ trace[Len(trace)].fn = "write"
    /\ trace[Len(trace)].ret = SizeofInt

\* C17: an accepted push(v) puts v on top of the elements, which stay where
\* they are, and raises position by 1; the pop that takes the lock next, with
\* no call of any caller in between, returns v, lowers position by 1, back to
\* its value before the push, and leaves the elements below the top unchanged.
C17_PushPopRoundTrip ==
    /\ [][\A p \in Callers :
            (WriteBodyStep(p) /\ ret'[p] = SizeofInt)
            => /\ position' = position + 1
               /\ elements'[position] = req[p].arg
               /\ \A i \in 0 .. (position - 1) : elements'[i] = elements[i]]_vars
    /\ [][\A p \in Callers :
            (ReadBodyStep(p) /\ LastWasPush)
            => /\ ret'[p] = SizeofInt
               /\ out'[p] = <<trace[Len(trace)].arg>>
               /\ position' = position - 1
               /\ \A i \in 0 .. (position' - 1) : elements'[i] = elements[i]]_vars

\* a push that grew a full store holding one element was followed by the pop
\* of the pushed value: the older element is still the only one
C17_Witness ==
    /\ Len(trace) = 2
    /\ trace[1] = Call("write", 0, 1, TRUE, SizeofInt, <<>>)
    /\ trace[2] = Call("read", 0, 0, TRUE, SizeofInt, <<1>>)
    /\ capacity = MinGrowCapacity
    /\ position = 1
    /\ elements[0] = Filled(0)

\* C18: in every reachable state device_registered = 1 implies
\* usb_key_present = 1: the device node is published only while the
\* configured key is attached.
C18_RegisteredImpliesPresent == device_registered = 1 => usb_key_present = 1

\* the error kind of a result of the driver
Kind(r) ==
    CASE r = -ENODEV -> "NotPresent"
      [] r = -EINVAL -> "InvalidArgument"
      [] r = -ENOMEM -> "AllocationFailure"
      [] r = -ENOSPC -> "Overflow"
      [] r = -ENOTTY -> "NotSupported"
      [] OTHER -> "none"

\* the runs that have exited: status, deciding result, command
Exits == SelectSeq(trace, LAMBDA e : e.op = "exit")
StatusOf(e) == e.val.status
ResultOf(e) == e.val.result

\* C19: the exit statuses are 0, 1 (a missing argument), 2, 3, 4 and 5, two results of the driver of
\* different error kinds never give the same exit status, and every
\* NotPresent result of open, set-size, push, pop and unwind gives 5.
C19_ExitCodesOneToOne ==
    /\ \A i \in 1 .. Len(Exits) :
          /\ StatusOf(Exits[i]) \in {EXIT_SUCCESS, EXIT_FAILURE, EXIT_CONFIG_ERROR,
                                      EXIT_IO_ERROR, EXIT_FORMAT_ERROR, EXIT_USB_ERROR}
          /\ Kind(ResultOf(Exits[i])) = "NotPresent" => StatusOf(Exits[i]) = EXIT_USB_ERROR
    /\ \A i, j \in 1 .. Len(Exits) :
          (/\ Kind(ResultOf(Exits[i])) # "none"
           /\ Kind(ResultOf(Exits[j])) # "none"
           /\ Kind(ResultOf(Exits[i])) # Kind(ResultOf(Exits[j])))
          => StatusOf(Exits[i]) # StatusOf(Exits[j])

\* the elements that the store held when the run of unwind began: the run
\* pushes nothing
StoredAtStart == stats.push_count
UnwindExited(status) ==
    /\ At(1) = "exit"
    /\ StatusOf(Mine(1)[Len(Mine(1))]) = status

\* C20: a run of unwind on a store of n elements, with no other caller,
\* issues at most n + 1 pop requests and prints the stored values from the
\* newest to the oldest; it never changes the capacity; a request made while
\* the key is present is admitted and its pop does not fail; the run is never
\* stuck; it fails only on a NotPresent result or a missing device node; and
\* when it exits with status 0 it has issued exactly n + 1 requests and
\* printed n values, position is 0, and "Stack is empty" was printed only
\* if n = 0.
C20_UnwindDrains ==
    /\ [](Len(Requests(1)) <= StoredAtStart + 1)
    /\ [](\A j \in 1 .. Len(Printed(1)) : Printed(1)[j].val = Filled(StoredAtStart - j))
    /\ [][capacity' = capacity /\ elements' = elements]_vars
    /\ [][\A p \in Callers :
            /\ (StartStep(p) /\ req'[p].fn = "read" /\ usb_key_present = 1) => pc'[p] = "wait"
            /\ ReadBodyStep(p) => ret'[p] \in {0, SizeofInt}]_vars
    /\ [](At(1) \notin {"none", "exit"}
           => ENABLED (UnwindOpened \/ UnwindRequest \/ Lock \/ UnwindReadBody \/ UnwindResult))
    /\ [](At(1) = "exit"
           => LET e == Mine(1)[Len(Mine(1))]
              IN \/ StatusOf(e) = EXIT_SUCCESS
                 \/ StatusOf(e) = EXIT_USB_ERROR /\ ResultOf(e) = -ENODEV
                 \/ StatusOf(e) = EXIT_IO_ERROR /\ ResultOf(e) = -ENOENT /\ Requests(1) = <<>>)
    /\ [](UnwindExited(EXIT_SUCCESS)
           => /\ Len(Requests(1)) = StoredAtStart + 1
              /\ Len(Printed(1)) = StoredAtStart
              /\ position = 0
              /\ (\E k \in 1 .. Len(trace) : trace[k].op = "empty") <=> StoredAtStart = 0)

\* unwind has exited with status 0 after four pop requests on a store of
\* three elements, having printed them from the newest to the oldest
C20_Witness ==
    /\ UnwindExited(EXIT_SUCCESS)
    /\ Len(Requests(1)) = 4
    /\ [j \in 1 .. Len(Printed(1)) |-> Printed(1)[j].val] = <<Filled(2), Filled(1), Filled(0)>>
    /\ position = 0
    /\ capacity = 3
    /\ stats.pop_count = 3
    /\ stats.underflow_count = 1

\* C21: with automatic growth enabled, a push on a full store whose growth
\* allocation fails returns -ENOSPC, not -ENOMEM, increments overflow_count
\* by exactly 1 and no other counter, and leaves capacity, position and
\* elements as they were.
C21_FailedGrowthIsOverflow ==
    [][\A p \in Callers :
        (/\ WriteBodyStep(p)
         /\ enable_auto_resize # 0
         /\ position = capacity
         /\ buffer_write_body(p, FALSE))
        => /\ ret'[p] = -ENOSPC
           /\ UNCHANGED store
           /\ stats' = [stats EXCEPT !.overflow_count = @ + 1]]_vars

\* the growth of a full store of five elements has failed and the push was
\* rejected with -ENOSPC
C21_Witness ==
    \E p \in Callers :
        /\ pc[p] = "done"
        /\ req[p].fn = "write"
        /\ ret[p] = -ENOSPC
        /\ enable_auto_resize = 1
        /\ capacity = 5
        /\ position = 5
        /\ stats.overflow_count = 1
        /\ stats.push_count = 5

\* C22: a push, pop or control call that has passed its presence check when
\* pen_disconnect clears usb_key_present still takes the lock and completes
\* with the result and the effect it has on the sequential stack, never with
\* -ENODEV; every call whose presence check comes after the write returns
\* -ENODEV without touching the store, the counters or the lock.
C22_PresenceRace ==
    /\ [][\A p \in Callers :
            (pc[p] = "cs" /\ pc'[p] = "done" /\ usb_key_present = 0)
            => LET e == trace'[Len(trace')]
                   r == SeqApply(SeqStack, e)
               IN /\ ret'[p] = r.ret
                  /\ out'[p] = r.out
                  /\ SeqStack' = r.state
                  /\ ret'[p] # -ENODEV]_vars
    /\ [](\A p \in Callers : (pc[p] = "wait" /\ op_lock = 0) => ENABLED mutex_lock(p))
    /\ [][\A p \in Callers :
            (StartStep(p) /\ usb_key_present = 0)
            => /\ pc'[p] = "done"
               /\ ret'[p] = -ENODEV
               /\ UNCHANGED <<store, stats, op_lock>>]_vars
    /\ [](\A i, j \in 1 .. Len(trace) :
            (trace[i].fn = "detach" /\ j > i + 1) => trace[j].ret = -ENODEV)

\* the key was unplugged while a push was admitted: the push was accepted
\* all the same, and the pop issued after it was rejected with -ENODEV
C22_Witness ==
    /\ Len(trace) = 3
    /\ trace[1] = Flip("detach")
    /\ trace[2].fn = "write" /\ trace[2].ret = SizeofInt
    /\ trace[3].fn = "read" /\ trace[3].ret = -ENODEV
    /\ usb_key_present = 0
    /\ position = stats.push_count
    /\ position > 0
    /\ elements[position - 1] = trace[2].arg

\* C23: an admitted call takes op_lock once, from the free state, holds it
\* exactly while it is in its critical section and gives it up with the step
\* that returns, whatever the result; so no returned call holds the lock, and
\* under fair scheduling every call that was admitted returns.
C23_DeadlockFree ==
    /\ [](\A p \in Callers : op_lock = p <=> pc[p] = "cs")
    /\ [][\A p \in Callers :
            /\ (pc[p] # "cs" /\ pc'[p] = "cs") => (pc[p] = "wait" /\ op_lock = 0 /\ op_lock' = p)
            /\ (pc[p] = "cs" /\ pc'[p] # "cs") => (pc'[p] = "done" /\ op_lock' = 0)
            /\ (pc[p] = "wait") => pc'[p] \in {"wait", "cs"}]_vars
    /\ \A p \in Callers : (pc[p] \in {"wait", "cs"}) ~> (pc[p] = "done")

\* a pop whose copy to the user faulted has returned and left the lock free
\* for the caller that was waiting behind it
C23_Witness ==
    /\ pc[1] = "done"
    /\ req[1].fn = "read"
    /\ ret[1] = -EFAULT
    /\ op_lock = 0
    /\ pc[2] = "wait"

\* C24: a step changes the counters only when it is the critical section of a
\* read or a write, run by the owner of op_lock, and then it adds one to one
\* counter: push_count for an accepted write, overflow_count for a write
\* refused with -ENOSPC, pop_count for a read that delivered a value,
\* underflow_count for a read of the empty store.  Control calls, hot-plug
\* steps and rejected calls leave the four counters as they are, so no counter
\* decreases.
C24_CountersStep ==
    [][/\ \A p \in Callers :
            /\ WriteBodyStep(p)
               => IF ret'[p] = SizeofInt
                  THEN stats' = [stats EXCEPT !.push_count = @ + 1]
                  ELSE ret'[p] = -ENOSPC /\ stats' = [stats EXCEPT !.overflow_count = @ + 1]
            /\ ReadBodyStep(p)
               => IF ret'[p] = SizeofInt
                  THEN stats' = [stats EXCEPT !.pop_count = @ + 1]
                  ELSE IF ret'[p] = 0
                  THEN stats' = [stats EXCEPT !.underflow_count = @ + 1]
                  ELSE stats' = stats
       /\ stats' # stats
          => \E p \in Callers : op_lock = p /\ (WriteBodyStep(p) \/ ReadBodyStep(p))
       /\ \A c \in DOMAIN stats : stats'[c] >= stats[c]]_vars

\* after a push and a clear, a pop found the store empty: one push and one
\* underflow are counted and nothing else
C24_Witness ==
    /\ pc[1] = "done"
    /\ req[1].fn = "read"
    /\ ret[1] = 0
    /\ capacity > 0
    /\ stats = [init_stats EXCEPT !.push_count = 1, !.underflow_count = 1]

\* C25: CMD_CLEAR_BUFFER sets position to 0 and returns 0; capacity, the array
\* with the values left in it, the four counters and the gate stay as they
\* were, and the read that enters the critical section next finds no data.
C25_ClearOnlyResetsCount ==
    /\ [][\A p \in Callers :
            IoctlBodyStep(p, CMD_CLEAR_BUFFER)
            => /\ position' = 0
               /\ ret'[p] = 0
               /\ out'[p] = <<>>
               /\ UNCHANGED <<elements, capacity, stats, cfg, gate>>]_vars
    /\ [](\A i \in 1 .. Len(trace) - 1 :
            (trace[i].fn = "ioctl" /\ trace[i].cmd = CMD_CLEAR_BUFFER /\ trace[i + 1].fn = "read")
            => (trace[i + 1].ret = 0 /\ trace[i + 1].out = <<>>))

\* a store holding one value was cleared and then read: the read found no
\* data although the value is still in the array
C25_Witness ==
    /\ Len(trace) = 2
    /\ trace[1].fn = "ioctl" /\ trace[1].cmd = CMD_CLEAR_BUFFER /\ trace[1].ret = 0
    /\ trace[2].fn = "read" /\ trace[2].ret = 0
    /\ position = 0
    /\ capacity > 0
    /\ elements[0] = Filled(0)
    /\ stats = [init_stats EXCEPT !.push_count = 1, !.underflow_count = 1]

\* the state that initialize_buffer leaves for the value of default_capacity
\* recorded in trace: no key present, no device registered, no call in the
\* driver, the lock free, position 0, the four counters 0 and, for a value
\* >= 0, capacity equal to it (16 unless stated) with a zeroed array
Fresh ==
    /\ Len(trace) >= 1
    /\ trace[1].ret = 0
    /\ usb_key_present = 0
    /\ device_registered = 0
    /\ \A p \in Callers : pc[p] \in {"idle", "done"}
    /\ initialize_buffer(trace[1].arg)
    /\ trace[1].arg >= 0 => capacity = trace[1].arg
LoadCompletes == Len(trace) = 1 /\ Len(trace') = 2 /\ trace'[2].ret = 0
\* what both readings of C26 say: the store is initialised before usb_register
\* can deliver a probe; a key is present, a device registered or a call
\* served only in a module whose initialize_buffer succeeded; and when a
\* kzalloc of initialize_buffer fails the load fails with -ENOMEM and the
\* module stays out.
StoreBeforeAttach ==
    /\ [](usb_pc = "usb_register" => Fresh)
    /\ []((usb_key_present = 1 \/ device_registered = 1
             \/ \E p \in Callers : pc[p] \in {"wait", "cs"})
          => (usb_pc \notin {"insmod", "usb_register", "failed"} /\ trace[1].ret = 0))
    /\ []((usb_pc # "insmod" /\ ~trace[1].alloc /\ trace[1].arg > 0)
          => (usb_pc = "failed" /\ trace[1].ret = -ENOMEM))
    /\ [][usb_pc = "failed" => usb_pc' = "failed"]_vars

\* C26, as stated: the above, and when integer_buffer_init returns 0 the
\* module is in the state that initialize_buffer left.
C26_AbsentAfterLoad ==
    /\ StoreBeforeAttach
    /\ [][LoadCompletes => Fresh']_vars

\* C26, with attach events during the load: the above, and the module stays
\* in the state that initialize_buffer left, through the return of
\* integer_buffer_init and after it, until pen_probe sets usb_key_present for
\* the configured key (or the module is unloaded); so that is the state when
\* integer_buffer_init returns 0 unless the key was attached before.
C26_InitialState ==
    /\ StoreBeforeAttach
    /\ [][(Fresh /\ usb_pc \notin {"insmod", "failed"})
          => (Fresh' \/ usb_key_present' = 1 \/ usb_pc' \in {"insmod", "failed"})]_vars

\* the module was loaded without a value for default_capacity and no key was
\* attached: the load has completed and the store has 16 free slots
C26_Witness ==
    /\ Len(trace) = 2
    /\ trace[2].ret = 0
    /\ trace[1].arg = DefaultCapacity
    /\ usb_pc = "idle"
    /\ Fresh
    /\ capacity = DefaultCapacity
    /\ elements = kzalloc(DefaultCapacity)

\* C27: the store owns one backing array when capacity > 0 and none when
\* capacity is 0, and a call keeps it so: the arrays it allocates less those
\* it releases make up the difference between what the store owned before
\* the call and what it owns after it, whatever the count.
Owned(cap) == IF cap > 0 THEN 1 ELSE 0
C27_ArrayOwnership ==
    [][\A p \in Callers :
        (pc[p] = "cs" /\ pc'[p] = "done")
        => LET e == trace'[Len(trace')]
               h == CASE e.fn = "write" -> buffer_write_heap(e.alloc)
                      [] e.fn = "ioctl" -> buffer_ioctl_heap(e.cmd, e.arg, FALSE, e.alloc)
                      [] OTHER -> [kzalloc |-> 0, kfree |-> 0]
           IN /\ Owned(capacity) + h.kzalloc - h.kfree = Owned(capacity')
              /\ (elements = NULL) <=> (capacity = 0)
              /\ DOMAIN elements' = 0 .. (capacity' - 1)]_vars

\* C28: position never exceeds push_count - pop_count.  The two are equal
\* when the module has been loaded, and a step changes their difference only
\* when it is a CMD_CLEAR_BUFFER or an INT_STACK_SET_MAX_SIZE that lowers
\* position, and then by the number of elements discarded; so they stay equal
\* until the first such step.
Unaccounted == (stats.push_count - stats.pop_count) - position
C28_Accounting ==
    /\ Unaccounted = 0
    /\ [](position <= stats.push_count - stats.pop_count)
    /\ [][\/ Unaccounted' = Unaccounted
          \/ \E p \in Callers :
                /\ IoctlBodyStep(p, CMD_CLEAR_BUFFER) \/ IoctlBodyStep(p, INT_STACK_SET_MAX_SIZE)
                /\ position' < position
                /\ Unaccounted' = Unaccounted + (position - position')]_vars

\* two values were pushed and the capacity was then set to 1: one element is
\* left, two pushes and no pop are counted
C28_Witness ==
    /\ position = 1
    /\ capacity = 1
    /\ stats.push_count = 2
    /\ stats.pop_count = 0
    /\ pc[1] = "done" /\ req[1].cmd = INT_STACK_SET_MAX_SIZE /\ ret[1] = 0

\* C29: a read of a non-empty store whose copy_to_user fails returns -EFAULT
\* and delivers nothing; position, capacity, the array and the four counters
\* are what they were before the call and the lock is free again.  A read
\* that succeeds delivers the element below position, so the value that
\* could not be delivered is the one the next successful read returns.
C29_FailedDelivery ==
    [][\A p \in Callers :
        /\ (ReadBodyStep(p) /\ position > 0 /\ ret'[p] # SizeofInt)
           => /\ ret'[p] = -EFAULT
              /\ out'[p] = <<>>
              /\ op_lock' = 0
              /\ position' > 0
              /\ UNCHANGED <<elements, capacity, position, stats>>
        /\ (ReadBodyStep(p) /\ ret'[p] = SizeofInt)
           => /\ position > 0
              /\ out'[p] = <<elements[position - 1]>>
        /\ (ReadBodyStep(p) /\ ret'[p] = -EFAULT) => position > 0]_vars

\* the copy of the only element failed: the element is still in the store
\* and no pop and no underflow is counted
C29_Witness ==
    /\ pc[1] = "done"
    /\ req[1].fn = "read"
    /\ ret[1] = -EFAULT
    /\ position = 1
    /\ elements[0] \in Values
    /\ op_lock = 0
    /\ stats = [init_stats EXCEPT !.push_count = 1]

\* C30: when misc_register fails in a pen_probe of the configured key, the
\* probe returns the error with usb_key_present and device_registered both 0;
\* and whenever no handler is running, usb_key_present = 1 only together with
\* device_registered = 1.
C30_FailedRegisterLeavesAbsent ==
    /\ (/\ usb_pc = "returned"
        /\ usb_ev.fn = "pen_probe"
        /\ ~Mismatch(usb_ev.vid, usb_ev.pid)
        /\ usb_ev.ret < 0)
       => (usb_key_present = 0 /\ device_registered = 0)
    /\ usb_pc = "idle" => (usb_key_present = 1 => device_registered = 1)

\* C31: while the key stays plugged in, the gated driver and the ungated one,
\* started with the same default_capacity and enable_auto_resize and given
\* the same calls, faults and allocation outcomes, return the same result
\* and the same data for every call and have the same array, capacity,
\* position and counters whenever no call is in its critical section.
C31_GatingTransparent ==
    \A p \in Procs :
        /\ pc[p] = "done" => (ret[p] = trace.ret /\ out[p] = trace.out)
        /\ pc[p] \in {"idle", "done"}
           => /\ elements = trace.elements
              /\ capacity = trace.capacity
              /\ position = trace.position
              /\ stats = trace.stats

\* both drivers started with capacity 0 and growth enabled, grew to 8 slots
\* on the first push and have delivered the value pushed
C31_Witness ==
    /\ usb_key_present = 1
    /\ pc[1] = "done"
    /\ req[1].fn = "read"
    /\ ret[1] = SizeofInt /\ trace.ret = SizeofInt
    /\ out[1] = trace.out /\ out[1] # <<>>
    /\ capacity = MinGrowCapacity /\ trace.capacity = MinGrowCapacity
    /\ stats.pop_count = 1 /\ trace.stats.pop_count = 1

\* C32: when the driver serves the ioctl of a "kernel_stack set-size n" whose
\* n the client has accepted, a result of 0 (the client then exits with
\* EXIT_SUCCESS) leaves capacity equal to n, and the call neither brings
\* capacity to 0 nor releases the array.
C32_SetSizeKeepsValue ==
    [][\A p \in Callers :
        (/\ IoctlBodyStep(p, INT_STACK_SET_MAX_SIZE)
         /\ Command(p).op = "set-size"
         /\ Positive(Command(p).val))
        => /\ ret'[p] = 0 => Long(0, capacity') = Command(p).val
           /\ capacity' = 0 => capacity = 0
           /\ elements' = NULL => elements = NULL]_vars

====
